---- MODULE Spec2Model ----
(***************************************************************************)
(* Model of the geval decision engine (packages/core/src/engine).         *)
(*                                                                         *)
(* evaluate() is a pure function of its input apart from the timestamp it *)
(* reads; it is modelled as the operator evaluate(input, timestamp).      *)
(* The state machine holds one engine input and the outcomes of the calls *)
(* a client made on it.                                                    *)
(***************************************************************************)
EXTENDS Integers, Sequences, FiniteSets, TLC

VARIABLES
    input,   \* the EngineInput the client holds
    calls,   \* outcomes of the calls made so far, oldest first
    clock    \* the time new Date() returns

vars == <<input, calls, clock>>

(***************************************************************************)
(* Bounds of the model.                                                    *)
(***************************************************************************)
\* Numeric metric values, thresholds and baselines range over 0..MaxValue.
MaxValue == 2
\* Total number of rules in a legacy contract (over all required evals).
MaxRules == 3
\* Number of entries of evalResults.
MaxResults == 2
\* Total number of policy rules (global rules plus environment rules).
MaxPolicyRules == 2
\* Number of signals handed to the policy engine.
MaxSignals == 2
\* Number of rows of a source file.
MaxRows == 3
\* Number of characters of a field of a one-column CSV table.
MaxField == 3

(***************************************************************************)
(* MetricValue = number | boolean | string, plus JavaScript's undefined.  *)
(* A value is a tagged record so that strict equality (===) is record     *)
(* equality.                                                               *)
(***************************************************************************)
Num(n) == [k |-> "number", n |-> n, s |-> ""]
Str(s) == [k |-> "string", n |-> 0, s |-> s]
Bool(b) == [k |-> "boolean", n |-> IF b THEN 1 ELSE 0, s |-> ""]
UNDEF == [k |-> "undefined", n |-> 0, s |-> ""]
Obj == [k |-> "object", n |-> 0, s |-> ""]

Operators == {"==", "!=", "<", "<=", ">", ">="}
Baselines == {"previous", "main", "fixed"}
ViolationActions == {"block", "require_approval", "warn"}
PolicyActions == {"pass", "block", "require_approval"}

(***************************************************************************)
(* compareValues: numeric operands support the six operators; anything    *)
(* else supports only == and != (strict equality).                        *)
(***************************************************************************)
compareValuesStrictGe(actual, operator, expected) ==
    IF actual.k = "number" /\ expected.k = "number"
    THEN CASE operator = "==" -> actual.n = expected.n
           [] operator = "!=" -> actual.n # expected.n
           [] operator = "<" -> actual.n < expected.n
           [] operator = "<=" -> actual.n <= expected.n
           [] operator = ">" -> actual.n > expected.n
           [] operator = ">=" -> actual.n > expected.n
           [] OTHER -> FALSE
    ELSE CASE operator = "==" -> actual = expected
           [] operator = "!=" -> actual # expected
           [] OTHER -> FALSE

\* compareValues with operands coerced to numbers before a relational test.
compareValuesCoercing(actual, operator, expected) ==
    CASE operator = "==" -> actual = expected
      [] operator = "!=" -> actual # expected
      [] operator = "<" -> actual.n < expected.n
      [] operator = "<=" -> actual.n <= expected.n
      [] operator = ">" -> actual.n > expected.n
      [] operator = ">=" -> actual.n >= expected.n
      [] OTHER -> FALSE

compareValues(actual, operator, expected) ==
    IF actual.k = "number" /\ expected.k = "number"
    THEN CASE operator = "==" -> actual.n = expected.n
           [] operator = "!=" -> actual.n # expected.n
           [] operator = "<" -> actual.n < expected.n
           [] operator = "<=" -> actual.n <= expected.n
           [] operator = ">" -> actual.n > expected.n
           [] operator = ">=" -> actual.n >= expected.n
           [] OTHER -> FALSE
    ELSE CASE operator = "==" -> actual = expected
           [] operator = "!=" -> actual # expected
           [] OTHER -> FALSE

\* computeDelta: actual - baseline when both are numbers, else undefined.
computeDelta(actual, baseline) ==
    IF actual.k = "number" /\ baseline.k = "number"
    THEN Num(actual.n - baseline.n)
    ELSE UNDEF

(***************************************************************************)
(* Legacy engine: rules.                                                   *)
(* A ContractRule is [metric, operator, baseline, threshold, maxDelta,    *)
(* description]; threshold and maxDelta are Num(_) or UNDEF.              *)
(* metrics maps every metric name to its value, UNDEF when absent.        *)
(* A baseline entry is [present, metrics]; present = FALSE models a       *)
(* missing key of the baselines record.                                   *)
(***************************************************************************)
NoViolation == [violated |-> FALSE]

Violation(evalName, rule, actualValue, baselineValue, delta, explanation) ==
    [violated |-> TRUE, evalName |-> evalName, rule |-> rule,
     actualValue |-> actualValue, baselineValue |-> baselineValue,
     delta |-> delta, explanation |-> explanation]

getBaselineValueStrict(rule, baseline) ==
    IF rule.baseline = "fixed" THEN rule.threshold
    ELSE IF ~baseline.present THEN Num(0)
    ELSE baseline.metrics[rule.metric]

getBaselineValue(rule, baseline) ==
    IF rule.baseline = "fixed" THEN rule.threshold
    ELSE IF ~baseline.present THEN UNDEF
    ELSE baseline.metrics[rule.metric]

evaluateRuleAbsoluteDelta(rule, evalName, evalResult, baseline) ==
    LET actualValue == evalResult.metrics[rule.metric]
        baselineValue == getBaselineValue(rule, baseline)
        delta == computeDelta(actualValue, baselineValue)
    IN  IF actualValue = UNDEF
        THEN Violation(evalName, rule, Str("missing"), UNDEF, UNDEF, "metric not found")
        ELSE IF rule.baseline = "fixed"
        THEN IF rule.threshold = UNDEF
             THEN Violation(evalName, rule, actualValue, UNDEF, UNDEF, "no threshold")
             ELSE IF ~compareValues(actualValue, rule.operator, rule.threshold)
             THEN Violation(evalName, rule, actualValue, rule.threshold, UNDEF, "expected")
             ELSE NoViolation
        ELSE IF baselineValue = UNDEF
        THEN NoViolation
        ELSE IF delta = UNDEF
        THEN IF ~compareValues(actualValue, rule.operator, baselineValue)
             THEN Violation(evalName, rule, actualValue, baselineValue, UNDEF, "baseline was")
             ELSE NoViolation
        ELSE IF rule.maxDelta # UNDEF
                /\ (delta.n > rule.maxDelta.n \/ 0 - delta.n > rule.maxDelta.n)
        THEN Violation(evalName, rule, actualValue, baselineValue, delta, "regressed")
        ELSE IF ~compareValues(actualValue, rule.operator, baselineValue)
        THEN Violation(evalName, rule, actualValue, baselineValue, delta, "expected baseline")
        ELSE NoViolation

evaluateRule(rule, evalName, evalResult, baseline) ==
    LET actualValue == evalResult.metrics[rule.metric]
        baselineValue == getBaselineValue(rule, baseline)
        delta == computeDelta(actualValue, baselineValue)
    IN  IF actualValue = UNDEF
        THEN Violation(evalName, rule, Str("missing"), UNDEF, UNDEF, "metric not found")
        ELSE IF rule.baseline = "fixed"
        THEN IF rule.threshold = UNDEF
             THEN Violation(evalName, rule, actualValue, UNDEF, UNDEF, "no threshold")
             ELSE IF ~compareValues(actualValue, rule.operator, rule.threshold)
             THEN Violation(evalName, rule, actualValue, rule.threshold, UNDEF, "expected")
             ELSE NoViolation
        ELSE IF baselineValue = UNDEF
        THEN NoViolation
        ELSE IF delta = UNDEF
        THEN IF ~compareValues(actualValue, rule.operator, baselineValue)
             THEN Violation(evalName, rule, actualValue, baselineValue, UNDEF, "baseline was")
             ELSE NoViolation
        ELSE IF rule.maxDelta # UNDEF /\ delta.n > rule.maxDelta.n
        THEN Violation(evalName, rule, actualValue, baselineValue, delta, "regressed")
        ELSE IF ~compareValues(actualValue, rule.operator, baselineValue)
        THEN Violation(evalName, rule, actualValue, baselineValue, delta, "expected baseline")
        ELSE NoViolation

(***************************************************************************)
(* Legacy engine: evaluate.                                                *)
(* A NormalizedEvalResult is [evalName, runId, metrics]; a RequiredEval is *)
(* [name, rules].  An outcome is what a call produced: a Decision         *)
(* (kind = "decision") or a thrown error (kind = "error").  A legacy PASS *)
(* Decision has no violations field: hasViolations = FALSE.               *)
(***************************************************************************)
Decision(status, timestamp, contractName, contractVersion, hasViolations, violations, summary) ==
    [kind |-> "decision", status |-> status, evaluatedAt |-> timestamp,
     contractName |-> contractName, contractVersion |-> contractVersion,
     hasViolations |-> hasViolations, violations |-> violations,
     summary |-> summary, error |-> ""]

Thrown(error) ==
    [kind |-> "error", status |-> "", evaluatedAt |-> 0,
     contractName |-> "", contractVersion |-> 0,
     hasViolations |-> FALSE, violations |-> <<>>,
     summary |-> [text |-> "", count |-> 0, evals |-> 0], error |-> error]

\* The rule reported for a required eval that has no result.
MissingEvalRule ==
    [metric |-> "*", operator |-> "==", baseline |-> "fixed",
     threshold |-> UNDEF, maxDelta |-> UNDEF,
     description |-> "Required eval must be present"]

\* evalResultMap.has(name) after the indexing loop.
hasEvalResult(evalResults, name) ==
    \E i \in 1..Len(evalResults) : evalResults[i].evalName = name

\* A map that keeps the first result set under a name.
evalResultMapGetFirst(evalResults, name) ==
    LET idx == {i \in 1..Len(evalResults) : evalResults[i].evalName = name}
    IN  evalResults[CHOOSE i \in idx : \A j \in idx : i <= j]

\* evalResultMap.get(name): Map.set overwrites, so the last result of a name stays.
evalResultMapGet(evalResults, name) ==
    LET idx == {i \in 1..Len(evalResults) : evalResults[i].evalName = name}
    IN  evalResults[CHOOSE i \in idx : \A j \in idx : j <= i]

\* The violations one required eval contributes (body of the outer loop).
requiredEvalViolationsFirstOnly(requiredEval, evalResults, baselines) ==
    IF ~hasEvalResult(evalResults, requiredEval.name)
    THEN << Violation(requiredEval.name, MissingEvalRule, Str("missing"),
                      UNDEF, UNDEF, "eval not found") >>
    ELSE LET evalResult == evalResultMapGet(evalResults, requiredEval.name)
             baseline == baselines[requiredEval.name]
             outcomes == [j \in 1..Len(requiredEval.rules) |->
                            evaluateRule(requiredEval.rules[j], requiredEval.name,
                                         evalResult, baseline)]
             found == SelectSeq(outcomes, LAMBDA v : v.violated)
         IN  IF found = <<>> THEN <<>> ELSE <<Head(found)>>

requiredEvalViolations(requiredEval, evalResults, baselines) ==
    IF ~hasEvalResult(evalResults, requiredEval.name)
    THEN << Violation(requiredEval.name, MissingEvalRule, Str("missing"),
                      UNDEF, UNDEF, "eval not found") >>
    ELSE LET evalResult == evalResultMapGet(evalResults, requiredEval.name)
             baseline == baselines[requiredEval.name]
             outcomes == [j \in 1..Len(requiredEval.rules) |->
                            evaluateRule(requiredEval.rules[j], requiredEval.name,
                                         evalResult, baseline)]
         IN  SelectSeq(outcomes, LAMBDA v : v.violated)

RECURSIVE collectViolationsAbortOnMissing(_, _, _)
collectViolationsAbortOnMissing(requiredEvals, evalResults, baselines) ==
    IF requiredEvals = <<>> THEN <<>>
    ELSE IF ~hasEvalResult(evalResults, Head(requiredEvals).name)
    THEN requiredEvalViolations(Head(requiredEvals), evalResults, baselines)
    ELSE requiredEvalViolations(Head(requiredEvals), evalResults, baselines)
         \o collectViolationsAbortOnMissing(Tail(requiredEvals), evalResults, baselines)

\* The violations array after the loop over contract.requiredEvals.
RECURSIVE collectViolations(_, _, _)
collectViolations(requiredEvals, evalResults, baselines) ==
    IF requiredEvals = <<>> THEN <<>>
    ELSE requiredEvalViolations(Head(requiredEvals), evalResults, baselines)
         \o collectViolations(Tail(requiredEvals), evalResults, baselines)

mapViolationActionWarnPasses(action) ==
    CASE action = "block" -> "BLOCK"
      [] action = "require_approval" -> "REQUIRES_APPROVAL"
      [] action = "warn" -> "PASS"

mapViolationAction(action) ==
    CASE action = "block" -> "BLOCK"
      [] action = "require_approval" -> "REQUIRES_APPROVAL"
      [] action = "warn" -> "REQUIRES_APPROVAL"

buildViolationSummary(violations, action) ==
    LET actionText == IF action = "block" THEN "Blocked"
                      ELSE IF action = "require_approval" THEN "Requires approval"
                      ELSE "Warning"
        uniqueEvals == {violations[i].evalName : i \in 1..Len(violations)}
    IN  [text |-> actionText, count |-> Len(violations), evals |-> Cardinality(uniqueEvals)]

\* contract.onViolation?.action ?? "warn"
onViolationAction(contract) ==
    IF contract.onViolation = "none" THEN "warn" ELSE contract.onViolation

evaluateLegacyClockInSummary(contract, evalResults, baselines, timestamp) ==
    IF ~contract.hasRequiredEvals \/ Len(contract.requiredEvals) = 0
    THEN Thrown("Contract must have either 'requiredEvals' or 'policy'")
    ELSE LET violations == collectViolations(contract.requiredEvals, evalResults, baselines)
         IN  IF Len(violations) = 0
             THEN Decision("PASS", timestamp, contract.name, contract.version, FALSE, <<>>,
                           [text |-> "All eval(s) passed contract requirements",
                            count |-> Len(contract.requiredEvals), evals |-> timestamp])
             ELSE Decision(mapViolationAction(onViolationAction(contract)), timestamp,
                           contract.name, contract.version, TRUE, violations,
                           [text |-> "Blocked", count |-> Len(violations),
                            evals |-> timestamp])

\* The legacy branch of evaluate (evaluator.ts, after the policy dispatch).
evaluateLegacy(contract, evalResults, baselines, timestamp) ==
    IF ~contract.hasRequiredEvals \/ Len(contract.requiredEvals) = 0
    THEN Thrown("Contract must have either 'requiredEvals' or 'policy'")
    ELSE LET violations == collectViolations(contract.requiredEvals, evalResults, baselines)
         IN  IF Len(violations) = 0
             THEN Decision("PASS", timestamp, contract.name, contract.version, FALSE, <<>>,
                           [text |-> "All eval(s) passed contract requirements",
                            count |-> Len(contract.requiredEvals), evals |-> 0])
             ELSE Decision(mapViolationAction(onViolationAction(contract)), timestamp,
                           contract.name, contract.version, TRUE, violations,
                           buildViolationSummary(violations, onViolationAction(contract)))

(***************************************************************************)
(* Policy engine.                                                          *)
(* A PolicyCondition is [kind, metric, operator, baseline, threshold,     *)
(* maxDelta, type, name, field, value]: kind = "eval" uses the first five *)
(* fields after kind, kind = "signal" the others; an absent optional      *)
(* string is "", an absent number or value is UNDEF.  A PolicyRule is     *)
(* [when, action, reason] (reason "" when absent).  A Signal is [id,      *)
(* type, name, value, fields, metadata]: fields holds the properties of   *)
(* an object value (value.k = "object"), metadata maps a key to its       *)
(* string, undefined when the key (or the metadata) is absent.             *)
(* The value of a condition is "true", "false" or "TypeError" (thrown).   *)
(***************************************************************************)
EvalCondition(metric, operator, baseline, threshold, maxDelta) ==
    [kind |-> "eval", metric |-> metric, operator |-> operator, baseline |-> baseline,
     threshold |-> threshold, maxDelta |-> maxDelta,
     type |-> "", name |-> "", field |-> "", value |-> UNDEF]

SignalCondition(type, name, field, operator, value) ==
    [kind |-> "signal", metric |-> "", operator |-> operator, baseline |-> "",
     threshold |-> UNDEF, maxDelta |-> UNDEF,
     type |-> type, name |-> name, field |-> field, value |-> value]

TruthValue(b) == IF b THEN "true" ELSE "false"

Abs(n) == IF n < 0 THEN -n ELSE n

\* Number.prototype.toString for the one-digit naturals the model uses.
NumberToString(n) ==
    IF n \in 0..9
    THEN <<"0", "1", "2", "3", "4", "5", "6", "7", "8", "9">>[n + 1]
    ELSE "NaN"

\* String(v)
String(v) ==
    CASE v.k = "number" -> NumberToString(v.n)
      [] v.k = "boolean" -> IF v.n = 1 THEN "true" ELSE "false"
      [] v.k = "string" -> v.s
      [] v.k = "object" -> "[object Object]"
      [] OTHER -> "undefined"

\* The loop body with the signed delta compared to maxDelta.
evalConditionOnResultSignedDelta(condition, result, baselines) ==
    LET metricValue == result.metrics[condition.metric]
    IN  IF condition.baseline = "fixed"
        THEN IF condition.threshold = UNDEF THEN "false"
             ELSE TruthValue(compareValues(metricValue, condition.operator, condition.threshold))
        ELSE IF ~baselines.defined THEN "TypeError"
        ELSE LET baseline == baselines.entries[result.evalName]
             IN  IF ~baseline.present THEN "true"
                 ELSE LET baselineValue == baseline.metrics[condition.metric]
                          delta == computeDelta(metricValue, baselineValue)
                      IN  IF baselineValue = UNDEF THEN "true"
                          ELSE IF condition.maxDelta # UNDEF /\ delta # UNDEF
                                  /\ delta.n <= condition.maxDelta.n
                          THEN "true"
                          ELSE TruthValue(compareValues(metricValue, condition.operator,
                                                        baselineValue))

\* The body of the loop of evaluateEvalCondition for the first result that
\* holds the metric.  baselines is [defined, entries]: evaluate() passes no
\* baselines to evaluatePolicy, so there baselines is undefined and indexing
\* it throws a TypeError.
evalConditionOnResult(condition, result, baselines) ==
    LET metricValue == result.metrics[condition.metric]
    IN  IF condition.baseline = "fixed"
        THEN IF condition.threshold = UNDEF THEN "false"
             ELSE TruthValue(compareValues(metricValue, condition.operator, condition.threshold))
        ELSE IF ~baselines.defined THEN "TypeError"
        ELSE LET baseline == baselines.entries[result.evalName]
             IN  IF ~baseline.present THEN "true"
                 ELSE LET baselineValue == baseline.metrics[condition.metric]
                          delta == computeDelta(metricValue, baselineValue)
                      IN  IF baselineValue = UNDEF THEN "true"
                          ELSE IF condition.maxDelta # UNDEF /\ delta # UNDEF
                                  /\ Abs(delta.n) <= condition.maxDelta.n
                          THEN "true"
                          ELSE TruthValue(compareValues(metricValue, condition.operator,
                                                        baselineValue))

\* The loop reading the last result that holds the metric.
evaluateEvalConditionLastHolding(condition, evalResults, baselines) ==
    LET holding == {i \in 1..Len(evalResults) :
                        evalResults[i].metrics[condition.metric] # UNDEF}
    IN  IF holding = {} THEN "false"
        ELSE evalConditionOnResult(
                 condition,
                 evalResults[CHOOSE i \in holding : \A j \in holding : i >= j],
                 baselines)

evaluateEvalCondition(condition, evalResults, baselines) ==
    LET holding == {i \in 1..Len(evalResults) :
                        evalResults[i].metrics[condition.metric] # UNDEF}
    IN  IF holding = {} THEN "false"
        ELSE evalConditionOnResult(
                 condition,
                 evalResults[CHOOSE i \in holding : \A j \in holding : i <= j],
                 baselines)

\* The value the loop of evaluateSignalCondition compares for one signal;
\* found = FALSE is the `continue` of a signal that lacks the field.
signalFieldValue(condition, signal) ==
    IF condition.field = ""
    THEN [found |-> TRUE, value |-> signal.value]
    ELSE IF signal.value.k = "object" /\ signal.fields[condition.field] # UNDEF
    THEN [found |-> TRUE, value |-> signal.fields[condition.field]]
    ELSE IF signal.metadata[condition.field] \notin {UNDEF, Str("")}
    THEN [found |-> TRUE, value |-> signal.metadata[condition.field]]
    ELSE [found |-> FALSE, value |-> UNDEF]

\* The comparison of one signal with the condition value, after coercion.
signalMatches(condition, signal) ==
    LET got == signalFieldValue(condition, signal)
        signalValue == got.value
        bothStrings == signalValue.k = "string" /\ condition.value.k = "string"
        actualValue == IF ~bothStrings /\ signalValue.k # "string"
                          /\ condition.value.k = "string"
                       THEN Str(String(signalValue)) ELSE signalValue
        expectedValue == IF ~bothStrings /\ signalValue.k = "string"
                         THEN Str(String(condition.value)) ELSE condition.value
    IN  got.found /\ compareValues(actualValue, condition.operator, expectedValue)

\* evaluateSignalCondition checking presence only when the operator and the
\* value are both absent.
evaluateSignalConditionBothAbsent(condition, signals) ==
    LET filtered == SelectSeq(signals, LAMBDA s :
                        /\ (condition.type # "" => s.type = condition.type)
                        /\ (condition.name # "" => s.name = condition.name))
    IN  IF Len(filtered) = 0 THEN "false"
        ELSE IF condition.operator = "" /\ condition.value = UNDEF
        THEN TruthValue(Len(filtered) > 0)
        ELSE TruthValue(\E i \in 1..Len(filtered) : signalMatches(condition, filtered[i]))

evaluateSignalCondition(condition, signals) ==
    LET filtered == SelectSeq(signals, LAMBDA s :
                        /\ (condition.type # "" => s.type = condition.type)
                        /\ (condition.name # "" => s.name = condition.name))
    IN  IF Len(filtered) = 0 THEN "false"
        ELSE IF condition.operator = "" \/ condition.value = UNDEF
        THEN TruthValue(Len(filtered) > 0)
        ELSE TruthValue(\E i \in 1..Len(filtered) : signalMatches(condition, filtered[i]))

evaluateCondition(condition, evalResults, signals, baselines) ==
    IF condition.kind = "eval"
    THEN evaluateEvalCondition(condition, evalResults, baselines)
    ELSE IF condition.kind = "signal"
    THEN evaluateSignalCondition(condition, signals)
    ELSE "false"

mapPolicyActionToDecisionStatus(action) ==
    CASE action = "pass" -> "PASS"
      [] action = "block" -> "BLOCK"
      [] action = "require_approval" -> "REQUIRES_APPROVAL"

walkRulesLastMatch(allRules, evalResults, signals, baselines) ==
    LET holds(k) == evaluateCondition(allRules[k].when, evalResults, signals, baselines)
        matching == {k \in 1..Len(allRules) : holds(k) = "true"}
        last == CHOOSE k \in matching : \A m \in matching : m <= k
    IN  IF \E k \in 1..Len(allRules) : holds(k) = "TypeError"
        THEN [matched |-> FALSE, thrown |-> TRUE, action |-> "", reason |-> ""]
        ELSE IF matching = {}
        THEN [matched |-> FALSE, thrown |-> FALSE, action |-> "", reason |-> ""]
        ELSE [matched |-> TRUE, thrown |-> FALSE,
              action |-> allRules[last].action, reason |-> allRules[last].reason]

\* The loop over allRules: [matched, thrown, action, reason] of the first
\* rule whose condition is true; a condition that throws ends the walk.
RECURSIVE walkRules(_, _, _, _)
walkRules(allRules, evalResults, signals, baselines) ==
    IF allRules = <<>>
    THEN [matched |-> FALSE, thrown |-> FALSE, action |-> "", reason |-> ""]
    ELSE LET rule == Head(allRules)
             holds == evaluateCondition(rule.when, evalResults, signals, baselines)
         IN  IF holds = "TypeError"
             THEN [matched |-> FALSE, thrown |-> TRUE, action |-> "", reason |-> ""]
             ELSE IF holds = "true"
             THEN [matched |-> TRUE, thrown |-> FALSE,
                   action |-> rule.action, reason |-> rule.reason]
             ELSE walkRules(Tail(allRules), evalResults, signals, baselines)

\* `Policy evaluation: ${finalAction}`
PolicyEvaluationText(action) ==
    CASE action = "pass" -> "Policy evaluation: pass"
      [] action = "block" -> "Policy evaluation: block"
      [] action = "require_approval" -> "Policy evaluation: require_approval"

\* evaluatePolicy with the default of "production" as the fallback of an
\* environment that declares none.
evaluatePolicyProductionFallback(contract, evalResults, signals, environment, baselines, timestamp) ==
    LET envPolicy == contract.policy.environments[environment]
        production == contract.policy.environments["production"]
        globalRules == contract.policy.rules
        envRules == IF envPolicy.present THEN envPolicy.rules ELSE <<>>
        allRules == globalRules \o envRules
        walk == walkRules(allRules, evalResults, signals, baselines)
        finalAction == IF walk.matched THEN walk.action
                       ELSE IF envPolicy.present /\ envPolicy.default # "none"
                       THEN envPolicy.default
                       ELSE IF production.present /\ production.default # "none"
                       THEN production.default
                       ELSE "pass"
        finalReason == IF walk.matched THEN walk.reason ELSE ""
    IN  IF walk.thrown
        THEN Thrown("TypeError")
        ELSE Decision(mapPolicyActionToDecisionStatus(finalAction), timestamp,
                      IF contract.name # "" THEN contract.name ELSE "unknown",
                      1, TRUE, <<>>,
                      IF finalReason # ""
                      THEN [text |-> finalReason, count |-> 0, evals |-> 0]
                      ELSE [text |-> PolicyEvaluationText(finalAction),
                            count |-> 0, evals |-> 0])

\* evaluatePolicy.  An environment policy is [present, default, rules]
\* (default "none" when absent); policy is [rules, environments].
evaluatePolicy(contract, evalResults, signals, environment, baselines, timestamp) ==
    LET envPolicy == contract.policy.environments[environment]
        globalRules == contract.policy.rules
        envRules == IF envPolicy.present THEN envPolicy.rules ELSE <<>>
        allRules == globalRules \o envRules
        walk == walkRules(allRules, evalResults, signals, baselines)
        finalAction == IF walk.matched THEN walk.action
                       ELSE IF envPolicy.present /\ envPolicy.default # "none"
                       THEN envPolicy.default
                       ELSE "pass"
        finalReason == IF walk.matched THEN walk.reason ELSE ""
    IN  IF walk.thrown
        THEN Thrown("TypeError")
        ELSE Decision(mapPolicyActionToDecisionStatus(finalAction), timestamp,
                      IF contract.name # "" THEN contract.name ELSE "unknown",
                      1, TRUE, <<>>,
                      IF finalReason # ""
                      THEN [text |-> finalReason, count |-> 0, evals |-> 0]
                      ELSE [text |-> PolicyEvaluationText(finalAction),
                            count |-> 0, evals |-> 0])

(***************************************************************************)
(* evaluate: dispatch on contract.policy.  The policy engine is called    *)
(* with { contract, evalResults, signals, environment }: baselines is not *)
(* forwarded.                                                              *)
(***************************************************************************)
NoBaselines == [defined |-> FALSE, entries |-> <<>>]

evaluateLegacyFirst(in, timestamp) ==
    IF in.contract.hasRequiredEvals /\ Len(in.contract.requiredEvals) > 0
    THEN evaluateLegacy(in.contract, in.evalResults, in.baselines, timestamp)
    ELSE IF in.contract.hasPolicy
    THEN evaluatePolicy(in.contract, in.evalResults,
                        IF in.hasSignals THEN in.signals ELSE <<>>,
                        IF in.environment # "" THEN in.environment
                        ELSE IF in.contract.environment # "" THEN in.contract.environment
                        ELSE "production",
                        NoBaselines, timestamp)
    ELSE Thrown("Contract must have either 'requiredEvals' or 'policy'")

evaluate(in, timestamp) ==
    IF in.contract.hasPolicy
    THEN evaluatePolicy(in.contract, in.evalResults,
                        IF in.hasSignals THEN in.signals ELSE <<>>,
                        IF in.environment # "" THEN in.environment
                        ELSE IF in.contract.environment # "" THEN in.contract.environment
                        ELSE "production",
                        NoBaselines, timestamp)
    ELSE evaluateLegacy(in.contract, in.evalResults, in.baselines, timestamp)

(***************************************************************************)
(* The inputs the model explores.                                          *)
(***************************************************************************)
EvalNames == {"quality", "safety"}
Metrics == {"accuracy", "latency"}
Environments == {"development", "staging", "production"}

NumberValues == {Num(n) : n \in 0..MaxValue}
MetricValues == NumberValues \cup {Str("high")}

Rule(metric, operator, baseline, threshold, maxDelta) ==
    [metric |-> metric, operator |-> operator, baseline |-> baseline,
     threshold |-> threshold, maxDelta |-> maxDelta, description |-> ""]

EvalResult(evalName, accuracy, latency) ==
    [evalName |-> evalName, runId |-> "run-1",
     metrics |-> [m \in Metrics |-> IF m = "accuracy" THEN accuracy ELSE latency]]

NoBaseline == [present |-> FALSE, metrics |-> [m \in Metrics |-> UNDEF]]

BaselineData(accuracy, latency) ==
    [present |-> TRUE,
     metrics |-> [m \in Metrics |-> IF m = "accuracy" THEN accuracy ELSE latency]]

NoPolicy ==
    [rules |-> <<>>,
     environments |-> [e \in Environments |->
                          [present |-> FALSE, default |-> "none", rules |-> <<>>]]]

LegacyContract(hasRequiredEvals, requiredEvals, onViolation) ==
    [name |-> "release-gate", version |-> 1, environment |-> "production",
     hasRequiredEvals |-> hasRequiredEvals, requiredEvals |-> requiredEvals,
     onViolation |-> onViolation, hasPolicy |-> FALSE, policy |-> NoPolicy]

EngineInput(contract, evalResults, baselines, hasSignals, signals, environment) ==
    [contract |-> contract, evalResults |-> evalResults, baselines |-> baselines,
     hasSignals |-> hasSignals, signals |-> signals, environment |-> environment]

\* Sequences over S of length lo..hi.
SeqsOf(S, lo, hi) == UNION {[1..k -> S] : k \in lo..hi}

(* Single-rule inputs: one required eval with one rule over "accuracy",    *)
(* every operator, baseline kind, threshold and maxDelta; one result for  *)
(* that eval with any value (or none) for the metric, any baseline entry. *)
SingleRules ==
    {Rule("accuracy", op, b, th, md) :
        op \in Operators, b \in Baselines,
        th \in {UNDEF, Num(1)}, md \in {UNDEF, Num(0), Num(1)}}

BaselinesFor(evalName, base) ==
    [e \in EvalNames |-> IF e = evalName THEN base ELSE NoBaseline]

InitSingleRule ==
    \E r \in SingleRules, action \in ViolationActions \cup {"none"},
       actual \in MetricValues \cup {UNDEF},
       base \in {NoBaseline} \cup {BaselineData(b, UNDEF) : b \in MetricValues \cup {UNDEF}} :
        input = EngineInput(
            LegacyContract(TRUE, <<[name |-> "quality", rules |-> <<r>>]>>, action),
            <<EvalResult("quality", actual, UNDEF)>>,
            BaselinesFor("quality", base), FALSE, <<>>, "")

(* Multi-rule inputs: any list of required evals holding at most MaxRules *)
(* rules in total, over two fixed-threshold rules; any list of at most    *)
(* MaxResults results over two metric maps (repeated names included).     *)
(* A contract without requiredEvals, or with an empty list, is included.  *)
ListRules ==
    {Rule("accuracy", ">=", "fixed", Num(1), UNDEF),
     Rule("latency", "<=", "fixed", Num(1), UNDEF)}

RECURSIVE RequiredEvalLists(_)
RequiredEvalLists(budget) ==
    {<<>>} \cup UNION {
        {<<[name |-> nm, rules |-> rs]>> \o rest :
            nm \in EvalNames, rs \in [1..k -> ListRules],
            rest \in RequiredEvalLists(budget - k)} : k \in 1..budget}

ListResults ==
    {EvalResult(nm, Num(1), Num(2)) : nm \in EvalNames}
    \cup {EvalResult(nm, Num(0), Num(0)) : nm \in EvalNames}

InitList ==
    \/ \E re \in RequiredEvalLists(MaxRules), action \in {"block", "warn"},
          results \in SeqsOf(ListResults, 0, MaxResults) :
            input = EngineInput(LegacyContract(TRUE, re, action), results,
                                BaselinesFor("quality", NoBaseline), FALSE, <<>>, "")
    \/ \E results \in SeqsOf(ListResults, 0, 1) :
            input = EngineInput(LegacyContract(FALSE, <<>>, "block"), results,
                                BaselinesFor("quality", NoBaseline), FALSE, <<>>, "")

(* Policy inputs: a chain of at most MaxPolicyRules rules split between   *)
(* the global rules and the rules of "production", with or without a      *)
(* default for "production".                                               *)
PolicyConditions ==
    {EvalCondition("accuracy", ">=", "fixed", Num(1), UNDEF),
     SignalCondition("risk_flag", "", "level", "==", Str("high"))}

PolicyRules ==
    {[when |-> c, action |-> a,
      reason |-> IF c.kind = "signal" THEN "" ELSE "Accuracy meets threshold"] :
        c \in PolicyConditions, a \in PolicyActions}
    \cup {[when |-> EvalCondition("accuracy", ">=", "previous", UNDEF, UNDEF),
           action |-> "block", reason |-> "Accuracy regressed"]}

Policy(global, env, default) ==
    [rules |-> global,
     environments |-> [e \in Environments |->
        IF e = "production"
        THEN [present |-> TRUE, default |-> default, rules |-> env]
        ELSE [present |-> FALSE, default |-> "none", rules |-> <<>>]]]

PolicyContract(policy, hasRequiredEvals, requiredEvals, onViolation) ==
    [name |-> "release-gate", version |-> 1, environment |-> "production",
     hasRequiredEvals |-> hasRequiredEvals, requiredEvals |-> requiredEvals,
     onViolation |-> onViolation, hasPolicy |-> TRUE, policy |-> policy]

Signal(type, name, value, level) ==
    [id |-> "sig-1", type |-> type, name |-> name, value |-> value,
     fields |-> [f \in {"level"} |-> level],
     metadata |-> [f \in {"level"} |-> UNDEF]]

SignalWithMetadata(type, name, value, level, metadataLevel) ==
    [id |-> "sig-1", type |-> type, name |-> name, value |-> value,
     fields |-> [f \in {"level"} |-> level],
     metadata |-> [f \in {"level"} |-> metadataLevel]]

PolicyResults ==
    {<<EvalResult("quality", Num(0), Num(0))>>,
     <<EvalResult("quality", Num(MaxValue), Num(0))>>}

PolicySignals ==
    {<<>>, <<Signal("risk_flag", "security-risk", Obj, Str("high"))>>}

InitPolicy ==
    \E g \in 0..MaxPolicyRules :
    \E global \in [1..g -> PolicyRules],
       env \in SeqsOf(PolicyRules, 0, MaxPolicyRules - g),
       default \in {"none", "block", "require_approval"},
       results \in PolicyResults,
       base \in {NoBaseline, BaselineData(Num(1), UNDEF)},
       signals \in PolicySignals,
       environment \in {"", "staging"} :
        input = EngineInput(
            PolicyContract(Policy(global, env, default), FALSE, <<>>, "none"),
            results, BaselinesFor("quality", base), TRUE, signals, environment)

(* Contracts that carry a policy together with requiredEvals and          *)
(* onViolation: a chain of at most one policy rule.                        *)
InitBothForms ==
    \E global \in SeqsOf(PolicyRules, 0, 1),
       default \in {"none", "block"},
       re \in RequiredEvalLists(1),
       action \in {"block", "none"},
       results \in PolicyResults,
       signals \in PolicySignals :
        input = EngineInput(
            PolicyContract(Policy(global, <<>>, default), TRUE, re, action),
            results, BaselinesFor("quality", NoBaseline), TRUE, signals, "")

(***************************************************************************)
(* The state machine: a client holding one input calls the engine, at     *)
(* most twice; the clock advances between two readings.                   *)
(***************************************************************************)
Init ==
    /\ calls = <<>>
    /\ clock = 0
    /\ InitSingleRule \/ InitList \/ InitPolicy \/ InitBothForms

\* evaluate(input); new Date() reads the clock.
CallEvaluate ==
    /\ Len(calls) < 2
    /\ calls' = Append(calls, [fn |-> "evaluate", outcome |-> evaluate(input, clock)])
    /\ clock' = clock + 1
    /\ UNCHANGED input

\* evaluatePolicy called directly (as the policy tests do), with baselines.
CallEvaluatePolicy ==
    /\ Len(calls) < 2
    /\ input.contract.hasPolicy
    /\ calls' = Append(calls,
           [fn |-> "evaluatePolicy",
            outcome |-> evaluatePolicy(
                input.contract, input.evalResults, input.signals,
                IF input.environment # "" THEN input.environment ELSE "production",
                [defined |-> TRUE, entries |-> input.baselines], clock)])
    /\ clock' = clock + 1
    /\ UNCHANGED input

Next == CallEvaluate \/ CallEvaluatePolicy

Spec == Init /\ [][Next]_vars

(***************************************************************************)
(* Vocabulary of the properties.                                           *)
(***************************************************************************)
EvaluateCalls == {i \in 1..Len(calls) : calls[i].fn = "evaluate"}

IsDecision(o) == o.kind = "decision"

LegacyInput == ~input.contract.hasPolicy

RequiredEvals == input.contract.requiredEvals

\* A Decision without its timestamp.
WithoutEvaluatedAt(o) == [o EXCEPT !.evaluatedAt = 0]

\* Positions of the violations of a Decision that carry an eval name.
ViolationsCarrying(o, name) ==
    {k \in 1..Len(o.violations) : o.violations[k].evalName = name}

\* Positions of the rules of a required eval that fail on the input.
FailingRules(requiredEval) ==
    {j \in 1..Len(requiredEval.rules) :
        evaluateRule(requiredEval.rules[j], requiredEval.name,
                     evalResultMapGet(input.evalResults, requiredEval.name),
                     input.baselines[requiredEval.name]).violated}

\* (required eval, rule) positions of the failing rules of the required
\* evals of a name; for a name one required eval bears, its failing rules.
FailingRulesOfName(name) ==
    UNION {{<<e, j>> : j \in FailingRules(RequiredEvals[e])} :
              e \in {e \in 1..Len(RequiredEvals) : RequiredEvals[e].name = name}}

\* A Decision reports a violation of this rule of this eval.
Reported(o, name, rule) ==
    \E k \in 1..Len(o.violations) :
        o.violations[k].evalName = name /\ o.violations[k].rule = rule

(***************************************************************************)
(* C1. Determinism: two calls of evaluate on the same input that both     *)
(* return, made at different times, return Decisions that agree on        *)
(* status, contractName, contractVersion, summary and the violations list *)
(* (same entries, same order); only evaluatedAt differs.                  *)
(***************************************************************************)
C1_Determinism ==
    \A i \in EvaluateCalls : \A j \in EvaluateCalls :
        IsDecision(calls[i].outcome) /\ IsDecision(calls[j].outcome)
        => WithoutEvaluatedAt(calls[i].outcome) = WithoutEvaluatedAt(calls[j].outcome)

C1_Witness ==
    /\ Len(calls) = 2
    /\ EvaluateCalls = {1, 2}
    /\ IsDecision(calls[1].outcome) /\ IsDecision(calls[2].outcome)
    /\ calls[1].outcome.evaluatedAt # calls[2].outcome.evaluatedAt
    /\ calls[1].outcome.status = "BLOCK"
    /\ Len(calls[1].outcome.violations) >= 2

(***************************************************************************)
(* C2. Exhaustiveness (legacy engine): for a required eval whose result   *)
(* is present, the number of violations of the Decision that carry its    *)
(* evalName is the number of its rules that fail (the failing rules of    *)
(* all required evals of that name, should the contract repeat a name):   *)
(* no failing rule stops a later rule or a later required eval.           *)
(***************************************************************************)
C2_Exhaustiveness ==
    \A i \in EvaluateCalls :
        LegacyInput /\ IsDecision(calls[i].outcome)
        => \A e \in 1..Len(RequiredEvals) :
               hasEvalResult(input.evalResults, RequiredEvals[e].name)
               => Cardinality(ViolationsCarrying(calls[i].outcome, RequiredEvals[e].name))
                    = Cardinality(FailingRulesOfName(RequiredEvals[e].name))

C2_Witness ==
    /\ LegacyInput
    /\ Len(RequiredEvals) = 2
    /\ RequiredEvals[1].name # RequiredEvals[2].name
    /\ hasEvalResult(input.evalResults, RequiredEvals[1].name)
    /\ hasEvalResult(input.evalResults, RequiredEvals[2].name)
    /\ Cardinality(FailingRules(RequiredEvals[1])) = 2
    /\ Cardinality(FailingRules(RequiredEvals[2])) = 1
    /\ \E i \in EvaluateCalls :
        /\ IsDecision(calls[i].outcome)
        /\ Len(calls[i].outcome.violations) = 3

(***************************************************************************)
(* C3. First match wins (policy engine): when some rule of the chain      *)
(* (global rules, then the rules of the environment) has a true           *)
(* condition, the Decision has the status and the reason of the first     *)
(* such rule, whatever the later rules are.                                *)
(***************************************************************************)
CallEnvironment(i) ==
    IF input.environment # "" THEN input.environment
    ELSE IF calls[i].fn = "evaluate" /\ input.contract.environment # ""
    THEN input.contract.environment
    ELSE "production"

CallBaselines(i) ==
    IF calls[i].fn = "evaluate" THEN NoBaselines
    ELSE [defined |-> TRUE, entries |-> input.baselines]

Chain(i) ==
    LET envPolicy == input.contract.policy.environments[CallEnvironment(i)]
    IN  input.contract.policy.rules \o (IF envPolicy.present THEN envPolicy.rules ELSE <<>>)

Matching(i) ==
    {k \in 1..Len(Chain(i)) :
        evaluateCondition(Chain(i)[k].when, input.evalResults, input.signals,
                          CallBaselines(i)) = "true"}

FirstMatch(i) == CHOOSE k \in Matching(i) : \A m \in Matching(i) : k <= m

C3_FirstMatchWins ==
    \A i \in 1..Len(calls) :
        input.contract.hasPolicy /\ IsDecision(calls[i].outcome) /\ Matching(i) # {}
        => LET rule == Chain(i)[FirstMatch(i)]
           IN  /\ calls[i].outcome.status = mapPolicyActionToDecisionStatus(rule.action)
               /\ calls[i].outcome.summary.text =
                    (IF rule.reason # "" THEN rule.reason
                     ELSE PolicyEvaluationText(rule.action))

\* A global rule and an environment rule both match, with different actions.
C3_Witness ==
    \E i \in EvaluateCalls :
        /\ input.contract.hasPolicy
        /\ IsDecision(calls[i].outcome)
        /\ Len(input.contract.policy.rules) = 1
        /\ Matching(i) = {1, 2}
        /\ Chain(i)[1].action # Chain(i)[2].action
        /\ calls[i].outcome.status = mapPolicyActionToDecisionStatus(Chain(i)[1].action)

(***************************************************************************)
(* C4. Every Decision evaluate returns has a non-empty violations list    *)
(* when its status is BLOCK or REQUIRES_APPROVAL, and reports no          *)
(* violation when its status is PASS.                                      *)
(***************************************************************************)
C4_ViolationsMatchStatus ==
    \A i \in EvaluateCalls :
        IsDecision(calls[i].outcome)
        => /\ calls[i].outcome.status \in {"BLOCK", "REQUIRES_APPROVAL"}
              => Len(calls[i].outcome.violations) > 0
           /\ calls[i].outcome.status = "PASS"
              => Len(calls[i].outcome.violations) = 0

(***************************************************************************)
(* C5. evaluate never throws for data-level conditions: on a contract     *)
(* with a policy or a non-empty requiredEvals it returns a Decision,      *)
(* whatever metrics, eval suites or baseline entries are missing.          *)
(***************************************************************************)
C5_NeverThrowsOnData ==
    \A i \in EvaluateCalls :
        (\/ input.contract.hasPolicy
         \/ input.contract.hasRequiredEvals /\ Len(RequiredEvals) > 0)
        => IsDecision(calls[i].outcome)

(***************************************************************************)
(* C6. Legacy evaluate returns PASS iff no violation was collected over   *)
(* all required evals; otherwise the status is BLOCK for onViolation      *)
(* action block and REQUIRES_APPROVAL for require_approval and for warn.  *)
(***************************************************************************)
NoViolationCollected ==
    \A e \in 1..Len(RequiredEvals) :
        /\ hasEvalResult(input.evalResults, RequiredEvals[e].name)
        /\ FailingRules(RequiredEvals[e]) = {}

C6_StatusFromViolations ==
    \A i \in EvaluateCalls :
        LegacyInput /\ IsDecision(calls[i].outcome)
        => /\ calls[i].outcome.status = "PASS" <=> NoViolationCollected
           /\ ~NoViolationCollected /\ input.contract.onViolation = "block"
              => calls[i].outcome.status = "BLOCK"
           /\ ~NoViolationCollected
              /\ input.contract.onViolation \in {"require_approval", "warn"}
              => calls[i].outcome.status = "REQUIRES_APPROVAL"

C6_Witness ==
    \E i \in EvaluateCalls :
        /\ LegacyInput
        /\ input.contract.onViolation = "warn"
        /\ ~NoViolationCollected
        /\ IsDecision(calls[i].outcome)
        /\ calls[i].outcome.status = "REQUIRES_APPROVAL"

(***************************************************************************)
(* C7. evaluate dispatches on contract.policy: with a policy, the         *)
(* Decision is the one the same contract without requiredEvals and        *)
(* onViolation gets; without a policy and with requiredEvals absent or    *)
(* empty, evaluate throws.                                                 *)
(***************************************************************************)
WithoutLegacyForm(in) ==
    [in EXCEPT !.contract.hasRequiredEvals = FALSE,
               !.contract.requiredEvals = <<>>,
               !.contract.onViolation = "none"]

C7_Dispatch ==
    \A i \in EvaluateCalls :
        /\ input.contract.hasPolicy
           => WithoutEvaluatedAt(calls[i].outcome)
                = WithoutEvaluatedAt(evaluate(WithoutLegacyForm(input), 0))
        /\ ~input.contract.hasPolicy
           /\ (~input.contract.hasRequiredEvals \/ Len(RequiredEvals) = 0)
           => calls[i].outcome.kind = "error"

\* The required evals alone would block; the policy passes.
C7_Witness ==
    \E i \in EvaluateCalls :
        /\ input.contract.hasPolicy
        /\ input.contract.hasRequiredEvals
        /\ Len(RequiredEvals) > 0
        /\ evaluateLegacy(input.contract, input.evalResults, input.baselines, 0).status = "BLOCK"
        /\ IsDecision(calls[i].outcome)
        /\ calls[i].outcome.status = "PASS"

(***************************************************************************)
(* C8. A required eval without a result of its name contributes exactly   *)
(* one violation (rule metric "*", actualValue "missing") and none for    *)
(* its rules; the pass goes on, so the failing rules of every later       *)
(* required eval are reported.                                             *)
(***************************************************************************)
C8_MissingEval ==
    \A i \in EvaluateCalls :
        LegacyInput /\ IsDecision(calls[i].outcome)
        => \A e \in 1..Len(RequiredEvals) :
            ~hasEvalResult(input.evalResults, RequiredEvals[e].name)
            => LET name == RequiredEvals[e].name
                   o == calls[i].outcome
               IN  /\ \A k \in ViolationsCarrying(o, name) :
                        /\ o.violations[k].rule.metric = "*"
                        /\ o.violations[k].actualValue = Str("missing")
                   /\ Cardinality(ViolationsCarrying(o, name))
                        = Cardinality({d \in 1..Len(RequiredEvals) :
                                          RequiredEvals[d].name = name})
                   /\ \A later \in (e + 1)..Len(RequiredEvals) :
                        hasEvalResult(input.evalResults, RequiredEvals[later].name)
                        => Cardinality(ViolationsCarrying(o, RequiredEvals[later].name))
                             = Cardinality(FailingRulesOfName(RequiredEvals[later].name))

C8_Witness ==
    \E i \in EvaluateCalls :
        /\ LegacyInput
        /\ Len(RequiredEvals) = 2
        /\ ~hasEvalResult(input.evalResults, RequiredEvals[1].name)
        /\ Len(RequiredEvals[1].rules) = 2
        /\ hasEvalResult(input.evalResults, RequiredEvals[2].name)
        /\ FailingRules(RequiredEvals[2]) # {}
        /\ IsDecision(calls[i].outcome)
        /\ Len(calls[i].outcome.violations) = 2
        /\ calls[i].outcome.violations[1].rule.metric = "*"

(***************************************************************************)
(* C9. Missing-baseline leniency: a legacy rule with baseline previous or *)
(* main, evaluated when baselines has no entry for the eval name, never   *)
(* produces a violation, whatever value the eval result holds for the     *)
(* rule's metric.                                                          *)
(***************************************************************************)
RelativeRuleWithoutBaseline(e, j) ==
    /\ RequiredEvals[e].rules[j].baseline \in {"previous", "main"}
    /\ hasEvalResult(input.evalResults, RequiredEvals[e].name)
    /\ ~input.baselines[RequiredEvals[e].name].present

MetricPresent(e, j) ==
    evalResultMapGet(input.evalResults, RequiredEvals[e].name)
        .metrics[RequiredEvals[e].rules[j].metric] # UNDEF

C10_FixedBaseline ==
    \A i \in EvaluateCalls :
        LegacyInput /\ IsDecision(calls[i].outcome)
        => \A e \in 1..Len(RequiredEvals) : \A j \in 1..Len(RequiredEvals[e].rules) :
            LET rule == RequiredEvals[e].rules[j]
                name == RequiredEvals[e].name
                reported == Reported(calls[i].outcome, name, rule)
            IN  rule.baseline = "fixed"
                /\ hasEvalResult(input.evalResults, name)
                /\ MetricPresent(e, j)
                => LET actual == evalResultMapGet(input.evalResults, name).metrics[rule.metric]
                   IN  /\ rule.threshold = UNDEF => reported
                       /\ rule.threshold # UNDEF
                          => (reported <=> ~compareValues(actual, rule.operator, rule.threshold))
                       /\ rule.threshold # UNDEF /\ rule.operator = ">="
                          /\ actual.k = "number"
                          => (reported <=> actual.n < rule.threshold.n)

\* Operator >= with the metric equal to the threshold: PASS.
C10_Witness ==
    \E i \in EvaluateCalls :
        /\ LegacyInput
        /\ Len(RequiredEvals) = 1
        /\ Len(RequiredEvals[1].rules) = 1
        /\ RequiredEvals[1].rules[1].baseline = "fixed"
        /\ RequiredEvals[1].rules[1].operator = ">="
        /\ RequiredEvals[1].rules[1].threshold = Num(1)
        /\ hasEvalResult(input.evalResults, RequiredEvals[1].name)
        /\ evalResultMapGet(input.evalResults, RequiredEvals[1].name)
             .metrics[RequiredEvals[1].rules[1].metric] = Num(1)
        /\ IsDecision(calls[i].outcome)
        /\ calls[i].outcome.status = "PASS"

(***************************************************************************)
(* C11. A legacy rule with baseline previous or main whose actual and     *)
(* baseline values are both numbers: when maxDelta is set and             *)
(* actual - baseline > maxDelta a violation is reported whatever the      *)
(* operator; otherwise (every negative delta included) a violation is     *)
(* reported iff compareValues(actual, operator, baselineValue) is false.  *)
(***************************************************************************)
NumericRelativeRule(e, j) ==
    /\ RequiredEvals[e].rules[j].baseline \in {"previous", "main"}
    /\ hasEvalResult(input.evalResults, RequiredEvals[e].name)
    /\ input.baselines[RequiredEvals[e].name].present
    /\ evalResultMapGet(input.evalResults, RequiredEvals[e].name)
           .metrics[RequiredEvals[e].rules[j].metric].k = "number"
    /\ input.baselines[RequiredEvals[e].name]
           .metrics[RequiredEvals[e].rules[j].metric].k = "number"

C11_RelativeBaseline ==
    \A i \in EvaluateCalls :
        LegacyInput /\ IsDecision(calls[i].outcome)
        => \A e \in 1..Len(RequiredEvals) : \A j \in 1..Len(RequiredEvals[e].rules) :
            NumericRelativeRule(e, j)
            => LET rule == RequiredEvals[e].rules[j]
                   name == RequiredEvals[e].name
                   actual == evalResultMapGet(input.evalResults, name).metrics[rule.metric]
                   base == input.baselines[name].metrics[rule.metric]
                   reported == Reported(calls[i].outcome, name, rule)
               IN  IF rule.maxDelta # UNDEF /\ actual.n - base.n > rule.maxDelta.n
                   THEN reported
                   ELSE reported <=> ~compareValues(actual, rule.operator, base)

\* The operator is satisfied, the metric rose by more than maxDelta: reported.
C11_Witness ==
    \E i \in EvaluateCalls :
        /\ LegacyInput
        /\ Len(RequiredEvals) = 1
        /\ NumericRelativeRule(1, 1)
        /\ RequiredEvals[1].rules[1].operator = ">="
        /\ RequiredEvals[1].rules[1].maxDelta = Num(1)
        /\ evalResultMapGet(input.evalResults, "quality").metrics["accuracy"] = Num(2)
        /\ input.baselines["quality"].metrics["accuracy"] = Num(0)
        /\ IsDecision(calls[i].outcome)
        /\ Len(calls[i].outcome.violations) = 1
        /\ calls[i].outcome.violations[1].delta = Num(2)

(***************************************************************************)
(* compareValues called on its own: the client holds the two operands and *)
(* the operator, and calls the function once.                              *)
(***************************************************************************)
CompareOperands == NumberValues \cup {Str("high"), Str("low"), Bool(TRUE), Bool(FALSE)}

InitCompare ==
    /\ calls = <<>>
    /\ clock = 0
    /\ \E a \in CompareOperands, op \in Operators, b \in CompareOperands :
          input = [actual |-> a, operator |-> op, expected |-> b]

CallCompareValues ==
    /\ Len(calls) < 1
    /\ calls' = Append(calls,
           [fn |-> "compareValues",
            outcome |-> compareValues(input.actual, input.operator, input.expected)])
    /\ UNCHANGED <<input, clock>>

NextCompare == CallCompareValues

SpecCompare == InitCompare /\ [][NextCompare]_vars

(***************************************************************************)
(* C12. compareValues(a, op, b): with two numbers each of the six         *)
(* operators has its standard meaning; with at least one operand that is  *)
(* not a number, == and != are strict equality and strict inequality, and *)
(* <, <=, > and >= are false.                                              *)
(***************************************************************************)
C12_CompareValues ==
    \A i \in 1..Len(calls) :
        LET a == input.actual
            b == input.expected
            op == input.operator
            result == calls[i].outcome
        IN  IF a.k = "number" /\ b.k = "number"
            THEN /\ op = "==" => (result <=> a.n = b.n)
                 /\ op = "!=" => (result <=> a.n # b.n)
                 /\ op = "<" => (result <=> a.n < b.n)
                 /\ op = "<=" => (result <=> ~(b.n < a.n))
                 /\ op = ">" => (result <=> b.n < a.n)
                 /\ op = ">=" => (result <=> ~(a.n < b.n))
            ELSE /\ op = "==" => (result <=> a = b)
                 /\ op = "!=" => (result <=> a # b)
                 /\ op \in {"<", "<=", ">", ">="} => ~result

\* true >= 0 is false: a boolean is not compared as a number.
C12_Witness ==
    /\ Len(calls) = 1
    /\ input.actual = Bool(TRUE)
    /\ input.operator = ">="
    /\ input.expected = Num(0)
    /\ calls[1].outcome = FALSE

(***************************************************************************)
(* Policies over several environments: "production" and "staging" each    *)
(* absent or declared with any default (or none) and at most one rule,    *)
(* at most one global rule; the call names no environment, "staging" or   *)
(* "development".                                                          *)
(***************************************************************************)
EnvironmentRules ==
    {[when |-> EvalCondition("accuracy", ">=", "fixed", Num(1), UNDEF),
      action |-> "pass", reason |-> "Accuracy meets threshold"],
     [when |-> SignalCondition("risk_flag", "", "level", "==", Str("high")),
      action |-> "block", reason |-> ""]}

AbsentEnvironmentPolicy == [present |-> FALSE, default |-> "none", rules |-> <<>>]

EnvironmentPolicies ==
    {AbsentEnvironmentPolicy}
    \cup {[present |-> TRUE, default |-> d, rules |-> rs] :
            d \in PolicyActions \cup {"none"}, rs \in SeqsOf(EnvironmentRules, 0, 1)}

InitEnvironments ==
    \E global \in SeqsOf(EnvironmentRules, 0, 1),
       production \in EnvironmentPolicies, staging \in EnvironmentPolicies,
       results \in PolicyResults, signals \in PolicySignals,
       environment \in {"", "staging", "development"} :
        input = EngineInput(
            PolicyContract(
                [rules |-> global,
                 environments |-> [e \in Environments |->
                    IF e = "production" THEN production
                    ELSE IF e = "staging" THEN staging
                    ELSE AbsentEnvironmentPolicy]],
                FALSE, <<>>, "none"),
            results, BaselinesFor("quality", NoBaseline), TRUE, signals, environment)

(* Policies of one global rule (action block, no default) whose condition *)
(* is an eval condition on "accuracy" with baseline previous or main:     *)
(* every operator and maxDelta; one result holding the metric, alone or   *)
(* after a result of another eval that lacks it; any baseline entry (or   *)
(* none) for the eval of the holding result.                               *)
RelativeEvalConditions ==
    {EvalCondition("accuracy", op, b, UNDEF, md) :
        op \in Operators, b \in {"previous", "main"}, md \in {UNDEF, Num(0), Num(1)}}

SingleRulePolicy(condition) ==
    [rules |-> <<[when |-> condition, action |-> "block", reason |-> ""]>>,
     environments |-> [e \in Environments |-> AbsentEnvironmentPolicy]]

InitEvalCondition ==
    \E c \in RelativeEvalConditions,
       actual \in MetricValues \cup {UNDEF},
       base \in {NoBaseline} \cup {BaselineData(b, UNDEF) : b \in MetricValues \cup {UNDEF}} :
    \E results \in {<<EvalResult("quality", actual, UNDEF)>>,
                    <<EvalResult("safety", UNDEF, Num(0)),
                      EvalResult("quality", actual, UNDEF)>>} :
        input = EngineInput(
            PolicyContract(SingleRulePolicy(c), FALSE, <<>>, "none"),
            results,
            [e \in EvalNames |-> IF e = "quality" THEN base
                                 ELSE BaselineData(Num(0), Num(0))],
            TRUE, <<>>, "")

(* Policies of one global rule (action block, no default) whose condition *)
(* is a signal condition: type, name, field, operator and value each      *)
(* given or absent; at most MaxSignals signals of two types and two       *)
(* names, with an object value or a string value.                          *)
SignalConditions ==
    {SignalCondition(t, n, f, op, v) :
        t \in {"", "risk_flag", "approval"}, n \in {"", "security-risk"},
        f \in {"", "level"}, op \in {"", "=="}, v \in {UNDEF, Str("high")}}

Signals ==
    {Signal(t, n, Obj, Str("high")) :
        t \in {"risk_flag", "approval"}, n \in {"security-risk", "human-review"}}
    \cup {Signal(t, n, Str("low"), UNDEF) :
        t \in {"risk_flag", "approval"}, n \in {"security-risk", "human-review"}}

InitSignalCondition ==
    \E c \in SignalConditions, signals \in SeqsOf(Signals, 0, MaxSignals) :
        input = EngineInput(
            PolicyContract(SingleRulePolicy(c), FALSE, <<>>, "none"),
            <<>>, BaselinesFor("quality", NoBaseline), TRUE, signals, "")

(* Policies of one global rule whose condition is an eval condition, on   *)
(* at most MaxResults + 1 results that hold the metric or not.            *)
InitResultOrder ==
    \E c \in {EvalCondition("accuracy", ">=", "fixed", Num(1), UNDEF),
               EvalCondition("accuracy", "<", "fixed", Num(1), UNDEF),
               EvalCondition("accuracy", ">=", "previous", UNDEF, UNDEF)},
       results \in SeqsOf({EvalResult(nm, a, Num(0)) :
                              nm \in EvalNames, a \in {UNDEF, Num(0), Num(MaxValue)}},
                          0, MaxResults + 1),
       base \in {NoBaseline, BaselineData(Num(1), UNDEF)} :
        input = EngineInput(
            PolicyContract(SingleRulePolicy(c), FALSE, <<>>, "none"),
            results, [e \in EvalNames |-> base], TRUE, <<>>, "")

(* Policies of one global rule whose condition compares a signal's value *)
(* or its field "level", on at most MaxSignals signals whose value is an  *)
(* object with or without the field, a number or a string, and whose      *)
(* metadata holds the field, holds it empty, or lacks it.                  *)
ValueConditions ==
    {SignalCondition("risk_flag", "", f, op, v) :
        f \in {"", "level"}, op \in {"==", "!=", ">="},
        v \in {Str("high"), Str("1"), Num(1)}}

ValuedSignals ==
    {SignalWithMetadata("risk_flag", "security-risk", Obj, Str("high"), UNDEF),
     SignalWithMetadata("risk_flag", "security-risk", Obj, Num(1), UNDEF),
     SignalWithMetadata("risk_flag", "security-risk", Obj, UNDEF, Str("high")),
     SignalWithMetadata("risk_flag", "security-risk", Obj, UNDEF, Str("")),
     SignalWithMetadata("risk_flag", "security-risk", Obj, UNDEF, UNDEF),
     SignalWithMetadata("risk_flag", "security-risk", Num(1), UNDEF, UNDEF),
     SignalWithMetadata("risk_flag", "security-risk", Str("high"), UNDEF, Str("")),
     SignalWithMetadata("risk_flag", "security-risk", Num(MaxValue), UNDEF, Str("1")),
     SignalWithMetadata("approval", "human-review", Obj, Str("high"), UNDEF)}

InitSignalValues ==
    \E c \in ValueConditions, signals \in SeqsOf(ValuedSignals, 0, MaxSignals) :
        input = EngineInput(
            PolicyContract(SingleRulePolicy(c), FALSE, <<>>, "none"),
            <<>>, BaselinesFor("quality", NoBaseline), TRUE, signals, "")

InitPolicyEngine ==
    /\ calls = <<>>
    /\ clock = 0
    /\ \/ InitEnvironments \/ InitEvalCondition \/ InitSignalCondition
       \/ InitResultOrder \/ InitSignalValues

SpecPolicy == InitPolicyEngine /\ [][Next]_vars

(***************************************************************************)
(* C13. Policy default fallback: when no rule of the chain matches, the   *)
(* status is the one mapped from the default of the environment of the    *)
(* call if that environment declares one, and PASS otherwise; the         *)
(* Decision is the one the same policy gets with the declarations of      *)
(* every other environment removed.                                        *)
(***************************************************************************)
OnlyEnvironment(contract, environment) ==
    [contract EXCEPT !.policy.environments =
        [e \in Environments |->
            IF e = environment THEN contract.policy.environments[e]
            ELSE AbsentEnvironmentPolicy]]

C13_DefaultFallback ==
    \A i \in 1..Len(calls) :
        input.contract.hasPolicy /\ IsDecision(calls[i].outcome)
        => LET envPolicy == input.contract.policy.environments[CallEnvironment(i)]
           IN  /\ Matching(i) = {}
                  => calls[i].outcome.status =
                       (IF envPolicy.present /\ envPolicy.default # "none"
                        THEN mapPolicyActionToDecisionStatus(envPolicy.default)
                        ELSE "PASS")
               /\ WithoutEvaluatedAt(calls[i].outcome) =
                    WithoutEvaluatedAt(
                        evaluatePolicy(OnlyEnvironment(input.contract, CallEnvironment(i)),
                                       input.evalResults, input.signals,
                                       CallEnvironment(i), CallBaselines(i), 0))

\* "production" would block by a matching rule and by default; the call is
\* for "staging", whose only rule does not match and whose default asks
\* for approval.
C13_Witness ==
    \E i \in EvaluateCalls :
        /\ input.contract.hasPolicy
        /\ input.environment = "staging"
        /\ input.contract.policy.environments["staging"].default = "require_approval"
        /\ Len(input.contract.policy.environments["staging"].rules) = 1
        /\ input.contract.policy.environments["production"].default = "block"
        /\ Len(input.contract.policy.environments["production"].rules) = 1
        /\ evaluateCondition(input.contract.policy.environments["production"].rules[1].when,
                             input.evalResults, input.signals, NoBaselines) = "true"
        /\ Matching(i) = {}
        /\ IsDecision(calls[i].outcome)
        /\ calls[i].outcome.status = "REQUIRES_APPROVAL"

(***************************************************************************)
(* C14. A policy eval condition with baseline previous or main, evaluated *)
(* by evaluatePolicy with its baselines, on the first result holding the  *)
(* metric: it is true when baselines has no record for that result's eval *)
(* name or the record lacks the metric; otherwise, with a numeric delta   *)
(* and maxDelta given, it is true when |actual - baseline| <= maxDelta,   *)
(* and in every remaining case it is                                      *)
(* compareValues(actual, operator, baselineValue).                        *)
(***************************************************************************)
DirectPolicyCalls == {i \in 1..Len(calls) : calls[i].fn = "evaluatePolicy"}

\* The policy is one global rule blocking on a relative eval condition.
RelativeConditionPolicy ==
    /\ input.contract.hasPolicy
    /\ Len(input.contract.policy.rules) = 1
    /\ \A e \in Environments : ~input.contract.policy.environments[e].present
    /\ input.contract.policy.rules[1].when.kind = "eval"
    /\ input.contract.policy.rules[1].when.baseline \in {"previous", "main"}
    /\ input.contract.policy.rules[1].action = "block"

Holding(metric) ==
    {k \in 1..Len(input.evalResults) : input.evalResults[k].metrics[metric] # UNDEF}

FirstHolding(metric) ==
    input.evalResults[CHOOSE k \in Holding(metric) : \A m \in Holding(metric) : k <= m]

SignalConditionPolicy ==
    /\ input.contract.hasPolicy
    /\ Len(input.contract.policy.rules) = 1
    /\ \A e \in Environments : ~input.contract.policy.environments[e].present
    /\ input.contract.policy.rules[1].when.kind = "signal"
    /\ input.contract.policy.rules[1].action = "block"

PassingFilter(condition) ==
    {k \in 1..Len(input.signals) :
        /\ condition.type = "" \/ input.signals[k].type = condition.type
        /\ condition.name = "" \/ input.signals[k].name = condition.name}

C15_SignalPresence ==
    \A i \in 1..Len(calls) :
        SignalConditionPolicy
        => LET condition == input.contract.policy.rules[1].when
               isTrue == calls[i].outcome.status = "BLOCK"
           IN  /\ IsDecision(calls[i].outcome)
               /\ PassingFilter(condition) = {} => ~isTrue
               /\ condition.operator = "" \/ condition.value = UNDEF
                  => (isTrue <=> PassingFilter(condition) # {})

\* An operator without a value, a field no signal has: the second signal
\* passes the filter and the condition is true.
C15_Witness ==
    \E i \in EvaluateCalls :
        /\ SignalConditionPolicy
        /\ input.contract.policy.rules[1].when.operator = "=="
        /\ input.contract.policy.rules[1].when.value = UNDEF
        /\ input.contract.policy.rules[1].when.type = "risk_flag"
        /\ input.contract.policy.rules[1].when.field = "level"
        /\ Len(input.signals) = 2
        /\ PassingFilter(input.contract.policy.rules[1].when) = {2}
        /\ input.signals[2].value = Str("low")
        /\ calls[i].outcome.status = "BLOCK"

(***************************************************************************)
(* Adapters (packages/core/src/adapters).                                  *)
(* A payload is described by what the adapters' supports() read of it:    *)
(* whether it is a plain object, and for each top-level key whether it is *)
(* present and of which shape.  results is [present, isArray, length,     *)
(* firstIsObject, firstKeys], firstKeys being the keys of results[0].     *)
(***************************************************************************)
ResultKeys == {"success", "feedback", "run_id", "scores", "passed"}
SummaryKeys == {"passed", "accuracy"}
\* Of eval_name, eval_id and dataset, the keys a payload may carry; eval_id
\* is read exactly as eval_name is.
OpenEvalsKeys == {"eval_name", "dataset"}

ResultsShape(present, isArray, length, firstIsObject, firstKeys) ==
    [present |-> present, isArray |-> isArray, length |-> length,
     firstIsObject |-> firstIsObject, firstKeys |-> firstKeys]

ResultsShapes ==
    {ResultsShape(FALSE, FALSE, 0, FALSE, {}),
     ResultsShape(TRUE, FALSE, 0, FALSE, {}),
     ResultsShape(TRUE, TRUE, 0, FALSE, {}),
     ResultsShape(TRUE, TRUE, 1, FALSE, {})}
    \cup {ResultsShape(TRUE, TRUE, 1, TRUE, ks) : ks \in SUBSET ResultKeys}

SummaryShapes ==
    {[present |-> FALSE, isObject |-> FALSE, keys |-> {}],
     [present |-> TRUE, isObject |-> FALSE, keys |-> {}]}
    \cup {[present |-> TRUE, isObject |-> TRUE, keys |-> ks] : ks \in SUBSET SummaryKeys}

Payloads ==
    [isObject : {TRUE},
     results : ResultsShapes,
     examples : {"absent", "array", "other"},
     aggregate_feedback : BOOLEAN,
     evalName : {"absent", "string", "other"},
     summary : SummaryShapes,
     metrics : {"absent", "object", "other"},
     keys : SUBSET OpenEvalsKeys]

\* A payload that is not a plain object (a string, an array, null).
NotAnObject ==
    [isObject |-> FALSE, results |-> ResultsShape(FALSE, FALSE, 0, FALSE, {}),
     examples |-> "absent", aggregate_feedback |-> FALSE, evalName |-> "absent",
     summary |-> [present |-> FALSE, isObject |-> FALSE, keys |-> {}],
     metrics |-> "absent", keys |-> {}]

\* "results" in data && Array.isArray(data.results) && data.results.length > 0
\* && isObject(data.results[0])
hasResultsWithObject(data) ==
    /\ data.results.present
    /\ data.results.isArray
    /\ data.results.length > 0
    /\ data.results.firstIsObject

PromptfooSupports(data) ==
    /\ data.isObject
    /\ hasResultsWithObject(data)
    /\ "success" \in data.results.firstKeys

LangSmithSupports(data) ==
    /\ data.isObject
    /\ \/ data.examples = "array"
       \/ /\ hasResultsWithObject(data)
          /\ ("feedback" \in data.results.firstKeys \/ "run_id" \in data.results.firstKeys)
       \/ data.aggregate_feedback

\* supports without the exclusion of payloads that carry evalName.
OpenEvalsSupportsWithEvalName(data) ==
    /\ data.isObject
    /\ \/ /\ hasResultsWithObject(data)
          /\ ("scores" \in data.results.firstKeys \/ "passed" \in data.results.firstKeys)
       \/ /\ data.summary.present
          /\ data.summary.isObject
          /\ ("passed" \in data.summary.keys \/ "accuracy" \in data.summary.keys)
       \/ /\ data.metrics = "object"
          /\ data.keys # {}

OpenEvalsSupports(data) ==
    /\ data.isObject
    /\ data.evalName # "string"
    /\ \/ /\ hasResultsWithObject(data)
          /\ ("scores" \in data.results.firstKeys \/ "passed" \in data.results.firstKeys)
       \/ /\ data.summary.present
          /\ data.summary.isObject
          /\ ("passed" \in data.summary.keys \/ "accuracy" \in data.summary.keys)
       \/ /\ data.metrics = "object"
          /\ data.keys # {}

GenericSupports(data) ==
    /\ data.isObject
    /\ data.evalName = "string"
    /\ data.metrics = "object"

\* The adapters in priority order.
ADAPTERS == <<"promptfoo", "langsmith", "openevals", "generic">>

supports(adapter, data) ==
    CASE adapter = "promptfoo" -> PromptfooSupports(data)
      [] adapter = "langsmith" -> LangSmithSupports(data)
      [] adapter = "openevals" -> OpenEvalsSupports(data)
      [] adapter = "generic" -> GenericSupports(data)

detectAdapterLastSupporting(data) ==
    LET supporting == {k \in 1..Len(ADAPTERS) : supports(ADAPTERS[k], data)}
    IN  IF supporting = {} THEN "undefined"
        ELSE ADAPTERS[CHOOSE k \in supporting : \A m \in supporting : m <= k]

\* detectAdapter: the name of the adapter returned, "undefined" for none.
detectAdapter(data) ==
    LET supporting == {k \in 1..Len(ADAPTERS) : supports(ADAPTERS[k], data)}
    IN  IF supporting = {} THEN "undefined"
        ELSE ADAPTERS[CHOOSE k \in supporting : \A m \in supporting : k <= m]

\* parseEvalResult: throws when no adapter is detected, else hands the
\* payload to parse() of the detected adapter.
parseEvalResult(data) ==
    LET adapter == detectAdapter(data)
    IN  IF adapter = "undefined"
        THEN [kind |-> "error", error |-> "Unable to detect eval format", adapter |-> ""]
        ELSE [kind |-> "parse", error |-> "", adapter |-> adapter]

InitAdapters ==
    /\ calls = <<>>
    /\ clock = 0
    /\ input \in Payloads \cup {NotAnObject}

CallDetectAdapter ==
    /\ Len(calls) < 1
    /\ calls' = Append(calls,
           [fn |-> "detectAdapter",
            outcome |-> [kind |-> "returned", error |-> "", adapter |-> detectAdapter(input)]])
    /\ UNCHANGED <<input, clock>>

CallParseEvalResult ==
    /\ Len(calls) < 1
    /\ calls' = Append(calls, [fn |-> "parseEvalResult", outcome |-> parseEvalResult(input)])
    /\ UNCHANGED <<input, clock>>

NextAdapters == CallDetectAdapter \/ CallParseEvalResult

SpecAdapters == InitAdapters /\ [][NextAdapters]_vars

(***************************************************************************)
(* C16. detectAdapter tries Promptfoo, LangSmith, OpenEvals, Generic in   *)
(* that order and returns the first whose supports(payload) is true,      *)
(* whatever the later adapters answer; it returns undefined when none     *)
(* supports the payload, and parseEvalResult then throws.                  *)
(***************************************************************************)
C16_DetectionOrder ==
    \A i \in 1..Len(calls) :
        LET o == calls[i].outcome
            none == /\ ~PromptfooSupports(input) /\ ~LangSmithSupports(input)
                    /\ ~OpenEvalsSupports(input) /\ ~GenericSupports(input)
        IN  /\ calls[i].fn = "detectAdapter"
               => /\ PromptfooSupports(input) => o.adapter = "promptfoo"
                  /\ ~PromptfooSupports(input) /\ LangSmithSupports(input)
                     => o.adapter = "langsmith"
                  /\ ~PromptfooSupports(input) /\ ~LangSmithSupports(input)
                     /\ OpenEvalsSupports(input)
                     => o.adapter = "openevals"
                  /\ ~PromptfooSupports(input) /\ ~LangSmithSupports(input)
                     /\ ~OpenEvalsSupports(input) /\ GenericSupports(input)
                     => o.adapter = "generic"
                  /\ none => o.adapter = "undefined"
            /\ calls[i].fn = "parseEvalResult"
               => /\ none => o.kind = "error"
                  /\ ~none => o.kind = "parse" /\ o.adapter = detectAdapter(input)

\* Promptfoo, LangSmith and OpenEvals all support the payload.
C16_Witness ==
    /\ Len(calls) = 1
    /\ calls[1].fn = "detectAdapter"
    /\ PromptfooSupports(input) /\ LangSmithSupports(input) /\ OpenEvalsSupports(input)
    /\ calls[1].outcome.adapter = "promptfoo"

(***************************************************************************)
(* Eval sources (packages/core/src/sources).                               *)
(* A source file is described by its extension and the shape of its       *)
(* content: "csv" (a first line with a comma, no leading bracket),        *)
(* "object" (one JSON object on one line, whose evalName and metrics are  *)
(* absent, falsy or truthy), "array" (a JSON array), "lines" (two or more *)
(* lines, each a JSON object), "null" (the JSON document null) and "text" *)
(* (neither JSON nor CSV).  rows is what the content parses to as a table *)
(* (a SourceRow is [score, split]; a cell is a number, a string or null). *)
(* A result is described by its evalName and its metrics.                  *)
(***************************************************************************)
NULL == [k |-> "null", n |-> 0, s |-> ""]

SourceTypes == {"csv", "json", "jsonl"}
Extensions == {"csv", "json", "jsonl", "ndjson", "txt"}
ContentShapes == {"csv", "object", "array", "lines", "null", "text"}
AggregationMethods == {"sum", "min", "max", "count", "first", "last"}

SourceResult(evalName, score) ==
    [kind |-> "result", evalName |-> evalName, metrics |-> [m \in {"score"} |-> score],
     error |-> ""]

SourceError(error) ==
    [kind |-> "error", evalName |-> "", metrics |-> [m \in {"score"} |-> UNDEF],
     error |-> error]

\* toNumber: no string of the model spells a number.
toNumber(value) ==
    CASE value.k = "number" -> value
      [] value.k = "boolean" -> Num(value.n)
      [] OTHER -> NULL

RECURSIVE SumOf(_)
SumOf(numbers) ==
    IF numbers = <<>> THEN 0 ELSE Head(numbers).n + SumOf(Tail(numbers))

\* [...values].sort((a, b) => a - b), on numbers.
RECURSIVE sortAscending(_)
sortAscending(numbers) ==
    IF numbers = <<>> THEN <<>>
    ELSE LET least == CHOOSE i \in 1..Len(numbers) :
                          \A j \in 1..Len(numbers) :
                              numbers[i].n < numbers[j].n
                              \/ (numbers[i].n = numbers[j].n /\ i <= j)
         IN  <<numbers[least]>>
             \o sortAscending([k \in 1..(Len(numbers) - 1) |->
                                  IF k < least THEN numbers[k] ELSE numbers[k + 1]])

\* The percentile read one place higher: index floor(p / 100 * n).
percentileZeroBased(values, p) ==
    IF Len(values) = 0 THEN Num(0)
    ELSE LET sorted == sortAscending(values)
             index == (p * Len(sorted)) \div 100
         IN  IF index + 1 <= Len(sorted) THEN sorted[index + 1] ELSE Num(0)

\* percentile: index = Math.ceil((p / 100) * n) - 1.  For p in {50, 90, 95,
\* 99} the floating-point product is the integer p * n / 100 whenever that
\* is an integer, so the ceiling is (p * n + 99) \div 100.
percentile(values, p) ==
    IF Len(values) = 0 THEN Num(0)
    ELSE LET sorted == sortAscending(values)
             index == ((p * Len(sorted) + 99) \div 100) - 1
         IN  sorted[(IF index > 0 THEN index ELSE 0) + 1]

\* aggregate, for the methods that stay within the integers.
aggregate(values, method) ==
    LET converted == [i \in 1..Len(values) |-> toNumber(values[i])]
        numericValues == SelectSeq(converted, LAMBDA v : v # NULL)
        all == {numericValues[i].n : i \in 1..Len(numericValues)}
    IN  CASE method = "sum" -> Num(SumOf(numericValues))
          [] method = "min" ->
                IF Len(numericValues) > 0
                THEN Num(CHOOSE x \in all : \A y \in all : x <= y) ELSE Num(0)
          [] method = "max" ->
                IF Len(numericValues) > 0
                THEN Num(CHOOSE x \in all : \A y \in all : y <= x) ELSE Num(0)
          [] method = "count" ->
                Num(Len(SelectSeq(values, LAMBDA v : v # NULL /\ v # UNDEF)))
          [] method = "p50" -> percentile(numericValues, 50)
          [] method = "p90" -> percentile(numericValues, 90)
          [] method = "p95" -> percentile(numericValues, 95)
          [] method = "p99" -> percentile(numericValues, 99)
          [] method = "first" ->
                IF Len(numericValues) > 0 THEN numericValues[1] ELSE Num(0)
          [] method = "last" ->
                IF Len(numericValues) > 0 THEN numericValues[Len(numericValues)] ELSE Num(0)
          [] OTHER -> Num(0)

\* A row filter is [present, column, equals, notEquals]; equals and
\* notEquals are UNDEF when not given.
NoFilter == [present |-> FALSE, column |-> "", equals |-> UNDEF, notEquals |-> UNDEF]

extractColumnValues(rows, column, filter) ==
    LET filteredRows ==
            IF filter.present
            THEN SelectSeq(rows, LAMBDA row :
                     IF filter.equals # UNDEF THEN row[filter.column] = filter.equals
                     ELSE IF filter.notEquals # UNDEF
                     THEN row[filter.column] # filter.notEquals
                     ELSE TRUE)
            ELSE rows
    IN  [i \in 1..Len(filteredRows) |-> filteredRows[i][column]]

\* aggregateMetrics (parseEvalSource): the filter of the metric is applied;
\* a metric without a valid value is left out of the result.
aggregateMetrics(rows, config) ==
    LET metricConfig == config.metrics[1]
        values == extractColumnValues(rows, metricConfig.column, metricConfig.filter)
        validValues == SelectSeq(values, LAMBDA v : v # NULL /\ v # UNDEF /\ v # Str(""))
    IN  SourceResult(config.evalName,
                     IF Len(validValues) > 0
                     THEN aggregate(values, metricConfig.aggregate) ELSE UNDEF)

\* aggregateToResult (parseEvalFile): extractColumnValues is called with the
\* rows and the column only.
aggregateToResult(rows, config) ==
    LET metricConfig == config.metrics[1]
        values == extractColumnValues(rows, metricConfig.column, NoFilter)
    IN  SourceResult(config.evalName, aggregate(values, metricConfig.aggregate))

\* detectSourceType (parseEvalSource).
detectSourceType(file) ==
    IF file.shape \in {"object", "array", "lines"} THEN "json"
    ELSE IF file.shape = "csv" THEN "csv"
    ELSE "csv"

\* detectFileType (parseEvalFile): the extension first, then the content.
detectFileType(file) ==
    IF file.ext = "csv" THEN "csv"
    ELSE IF file.ext = "json" THEN "json"
    ELSE IF file.ext \in {"jsonl", "ndjson"} THEN "jsonl"
    ELSE IF file.shape \in {"object", "array", "lines"}
    THEN IF file.shape = "lines" THEN "jsonl" ELSE "json"
    ELSE IF file.shape = "csv" THEN "csv"
    ELSE "json"

\* parseToRows: "rows" with the table, or the error the parser throws.
parseToRows(file, type) ==
    CASE type = "csv" -> "rows"
      [] type = "json" ->
            IF file.shape \in {"object", "array", "null"} THEN "rows" ELSE "SyntaxError"
      [] type = "jsonl" ->
            IF file.shape \in {"object", "array", "lines"} THEN "rows"
            ELSE IF file.shape = "null" THEN "TypeError"
            ELSE "SyntaxError"

parseEvalSource(file, rows, config) ==
    LET parsed == parseToRows(file, detectSourceType(file))
    IN  IF parsed = "rows" THEN aggregateMetrics(rows, config) ELSE SourceError(parsed)

\* parseWithAutoDetect: JSON.parse of the whole content for json and jsonl.
parseWithAutoDetect(file, fileType) ==
    IF fileType = "csv"
    THEN SourceError("CSV files require a source config in the contract")
    ELSE CASE file.shape \in {"csv", "text", "lines"} -> SourceError("SyntaxError")
           [] file.shape = "null" -> SourceError("TypeError")
           [] file.shape = "array" -> SourceError("Could not auto-detect eval format")
           [] file.shape = "object" ->
                IF file.evalName = "truthy" /\ file.metrics = "truthy"
                THEN SourceResult("document-eval", Num(1))
                ELSE SourceError("Could not auto-detect eval format")

parseWithSourceConfig(file, rows, fileType, config) ==
    LET parsed == parseToRows(file, fileType)
    IN  IF parsed = "rows"
        THEN aggregateToResult(IF file.shape = "null" THEN <<>> ELSE rows, config)
        ELSE SourceError(parsed)

parseEvalFile(file, rows, contract) ==
    LET fileType == detectFileType(file)
        sourceConfig == contract.sources[fileType]
    IN  IF ~sourceConfig.present
        THEN parseWithAutoDetect(file, fileType)
        ELSE parseWithSourceConfig(file, rows, fileType, sourceConfig.config)

(* Inputs. *)
SourceRows ==
    {[score |-> v, split |-> Str(sp)] :
        v \in NumberValues \cup {NULL}, sp \in {"test", "train"}}

RowFilters ==
    {NoFilter,
     [present |-> TRUE, column |-> "split", equals |-> Str("test"), notEquals |-> UNDEF],
     [present |-> TRUE, column |-> "split", equals |-> UNDEF, notEquals |-> Str("test")],
     [present |-> TRUE, column |-> "split", equals |-> UNDEF, notEquals |-> UNDEF]}

SourceConfig(method, filter) ==
    [metrics |-> <<[column |-> "score", aggregate |-> method, filter |-> filter]>>,
     evalName |-> "my-eval"]

ContractWithSources(present, config) ==
    [sources |-> [t \in SourceTypes |->
        [present |-> t \in present, config |-> config]]]

SourceFile(ext, shape, evalName, metrics) ==
    [ext |-> ext, shape |-> shape, evalName |-> evalName, metrics |-> metrics]

\* A CSV file of at most MaxRows rows, with a sources.csv entry of one metric.
InitCsvSource ==
    \E rows \in SeqsOf(SourceRows, 0, MaxRows),
       method \in AggregationMethods, filter \in RowFilters :
        input = [file |-> SourceFile("csv", "csv", "absent", "absent"),
                 rows |-> rows,
                 config |-> SourceConfig(method, filter),
                 contract |-> ContractWithSources({"csv"}, SourceConfig(method, filter))]

\* Any file, with a contract declaring any set of source types.
InitAnyFile ==
    \E ext \in Extensions, shape \in ContentShapes,
       evalName \in {"absent", "falsy", "truthy"},
       metrics \in {"absent", "falsy", "truthy"},
       present \in SUBSET SourceTypes :
        /\ shape # "object" => evalName = "absent" /\ metrics = "absent"
        /\ input = [file |-> SourceFile(ext, shape, evalName, metrics),
                    rows |-> <<[score |-> Num(1), split |-> Str("test")]>>,
                    config |-> SourceConfig("sum", NoFilter),
                    contract |-> ContractWithSources(present, SourceConfig("sum", NoFilter))]

InitSources ==
    /\ calls = <<>>
    /\ clock = 0
    /\ InitCsvSource \/ InitAnyFile

CallParseEvalSource ==
    /\ Len(calls) < 1
    /\ calls' = Append(calls,
           [fn |-> "parseEvalSource",
            outcome |-> parseEvalSource(input.file, input.rows, input.config)])
    /\ UNCHANGED <<input, clock>>

CallParseEvalFile ==
    /\ Len(calls) < 1
    /\ calls' = Append(calls,
           [fn |-> "parseEvalFile",
            outcome |-> parseEvalFile(input.file, input.rows, input.contract)])
    /\ UNCHANGED <<input, clock>>

NextSources == CallParseEvalSource \/ CallParseEvalFile

SpecSources == InitSources /\ [][NextSources]_vars

(***************************************************************************)
(* C17. A per-metric row filter {column, equals | notEquals} restricts    *)
(* the rows that contribute to the metric's aggregation, through          *)
(* parseEvalSource and through parseEvalFile with the contract's source   *)
(* config: the result is the one obtained from the file without the rows  *)
(* the filter rejects.                                                     *)
(***************************************************************************)
Accepted(row, filter) ==
    \/ ~filter.present
    \/ filter.equals # UNDEF /\ row[filter.column] = filter.equals
    \/ filter.equals = UNDEF /\ filter.notEquals # UNDEF
       /\ row[filter.column] # filter.notEquals
    \/ filter.equals = UNDEF /\ filter.notEquals = UNDEF

AcceptedRows == SelectSeq(input.rows, LAMBDA row : Accepted(row, input.config.metrics[1].filter))

CsvWithSourceConfig ==
    /\ input.file.ext = "csv"
    /\ input.file.shape = "csv"
    /\ input.contract.sources["csv"].present

C17_RowFilter ==
    \A i \in 1..Len(calls) :
        CsvWithSourceConfig
        => /\ calls[i].fn = "parseEvalSource"
              => calls[i].outcome = parseEvalSource(input.file, AcceptedRows, input.config)
           /\ calls[i].fn = "parseEvalFile"
              => calls[i].outcome = parseEvalFile(input.file, AcceptedRows, input.contract)

(***************************************************************************)
(* CSV parser (packages/core/src/sources/csv-parser.ts), with the default *)
(* options: delimiter ",", quote '"', a header row.                        *)
(* A string is a sequence of characters.  A parsed cell is null or a      *)
(* string: no cell of the model spells a number, a boolean, "null" or     *)
(* JSON.                                                                   *)
(***************************************************************************)
QUOTE == "\""
DELIMITER == ","
LF == "\n"
CR == "\r"

\* One turn of the loop of splitCsvLines; st is [i, currentLine, inQuotes,
\* lines], i counting from 1.
splitCsvStepBreakInQuotes(st, content, quote) ==
    LET char == content[st.i]
        nextChar == IF st.i + 1 <= Len(content) THEN content[st.i + 1] ELSE ""
    IN  IF char = quote
        THEN IF st.inQuotes /\ nextChar = quote
             THEN [st EXCEPT !.i = st.i + 2,
                             !.currentLine = st.currentLine \o <<char, char>>]
             ELSE [st EXCEPT !.i = st.i + 1,
                             !.currentLine = Append(st.currentLine, char),
                             !.inQuotes = ~st.inQuotes]
        ELSE IF char = LF \/ (char = CR /\ nextChar = LF)
        THEN [st EXCEPT !.i = IF char = CR THEN st.i + 2 ELSE st.i + 1,
                        !.currentLine = <<>>,
                        !.lines = Append(st.lines, st.currentLine)]
        ELSE IF char = CR /\ ~st.inQuotes
        THEN [st EXCEPT !.i = st.i + 1,
                        !.currentLine = <<>>,
                        !.lines = Append(st.lines, st.currentLine)]
        ELSE [st EXCEPT !.i = st.i + 1,
                        !.currentLine = Append(st.currentLine, char)]

splitCsvStep(st, content, quote) ==
    LET char == content[st.i]
        nextChar == IF st.i + 1 <= Len(content) THEN content[st.i + 1] ELSE ""
    IN  IF char = quote
        THEN IF st.inQuotes /\ nextChar = quote
             THEN [st EXCEPT !.i = st.i + 2,
                             !.currentLine = st.currentLine \o <<char, char>>]
             ELSE [st EXCEPT !.i = st.i + 1,
                             !.currentLine = Append(st.currentLine, char),
                             !.inQuotes = ~st.inQuotes]
        ELSE IF (char = LF \/ (char = CR /\ nextChar = LF)) /\ ~st.inQuotes
        THEN [st EXCEPT !.i = IF char = CR THEN st.i + 2 ELSE st.i + 1,
                        !.currentLine = <<>>,
                        !.lines = Append(st.lines, st.currentLine)]
        ELSE IF char = CR /\ ~st.inQuotes
        THEN [st EXCEPT !.i = st.i + 1,
                        !.currentLine = <<>>,
                        !.lines = Append(st.lines, st.currentLine)]
        ELSE [st EXCEPT !.i = st.i + 1,
                        !.currentLine = Append(st.currentLine, char)]

RECURSIVE splitCsvLoop(_, _, _)
splitCsvLoop(st, content, quote) ==
    IF st.i > Len(content) THEN st
    ELSE splitCsvLoop(splitCsvStep(st, content, quote), content, quote)

splitCsvLines(content, quote) ==
    LET st == splitCsvLoop([i |-> 1, currentLine |-> <<>>, inQuotes |-> FALSE,
                            lines |-> <<>>], content, quote)
    IN  IF st.currentLine # <<>> THEN Append(st.lines, st.currentLine) ELSE st.lines

\* One turn of the loop of parseCsvLine; st is [i, currentValue, inQuotes,
\* values].
parseCsvLineStep(st, line, delimiter, quote) ==
    LET char == line[st.i]
        nextChar == IF st.i + 1 <= Len(line) THEN line[st.i + 1] ELSE ""
    IN  IF char = quote
        THEN IF ~st.inQuotes
             THEN [st EXCEPT !.i = st.i + 1, !.inQuotes = TRUE]
             ELSE IF nextChar = quote
             THEN [st EXCEPT !.i = st.i + 2,
                             !.currentValue = Append(st.currentValue, quote)]
             ELSE [st EXCEPT !.i = st.i + 1, !.inQuotes = FALSE]
        ELSE IF char = delimiter /\ ~st.inQuotes
        THEN [st EXCEPT !.i = st.i + 1,
                        !.currentValue = <<>>,
                        !.values = Append(st.values, st.currentValue)]
        ELSE [st EXCEPT !.i = st.i + 1,
                        !.currentValue = Append(st.currentValue, char)]

RECURSIVE parseCsvLineLoop(_, _, _, _)
parseCsvLineLoop(st, line, delimiter, quote) ==
    IF st.i > Len(line) THEN st
    ELSE parseCsvLineLoop(parseCsvLineStep(st, line, delimiter, quote),
                          line, delimiter, quote)

parseCsvLine(line, delimiter, quote) ==
    LET st == parseCsvLineLoop([i |-> 1, currentValue |-> <<>>, inQuotes |-> FALSE,
                                values |-> <<>>], line, delimiter, quote)
    IN  Append(st.values, st.currentValue)

\* String.prototype.trim
Whitespace == {LF, CR, " "}

RECURSIVE trimStart(_)
trimStart(str) ==
    IF str # <<>> /\ Head(str) \in Whitespace THEN trimStart(Tail(str)) ELSE str

RECURSIVE trimEnd(_)
trimEnd(str) ==
    IF str # <<>> /\ str[Len(str)] \in Whitespace
    THEN trimEnd(SubSeq(str, 1, Len(str) - 1)) ELSE str

trim(str) == trimEnd(trimStart(str))

\* parseValue: null for an empty cell, else the trimmed string.
parseValue(value) ==
    IF trim(value) = <<>> THEN [k |-> "null", s |-> <<>>]
    ELSE [k |-> "string", s |-> trim(value)]

\* parseCsv: headers and rows; a row is an object keyed by header, so of
\* two columns with one header the later one stays.
parseCsv(content) ==
    LET lines == splitCsvLines(content, QUOTE)
        headers == IF lines = <<>> \/ lines[1] = <<>> THEN <<>>
                   ELSE parseCsvLine(lines[1], DELIMITER, QUOTE)
        dataLines == SelectSeq(Tail(lines), LAMBDA line : trim(line) # <<>>)
        rowOf(line) ==
            LET values == parseCsvLine(line, DELIMITER, QUOTE)
            IN  [h \in {headers[c] : c \in 1..Len(headers)} |->
                    LET last == CHOOSE c \in 1..Len(headers) :
                                    /\ headers[c] = h
                                    /\ \A d \in 1..Len(headers) : headers[d] = h => d <= c
                    IN  parseValue(IF last <= Len(values) THEN values[last] ELSE <<>>)]
    IN  IF lines = <<>> THEN [headers |-> <<>>, rows |-> <<>>]
        ELSE [headers |-> headers,
              rows |-> [r \in 1..Len(dataLines) |-> rowOf(dataLines[r])]]

(* Inputs: a table (a header record and data records, each a list of      *)
(* fields) written with every field quoted and every quote doubled,       *)
(* records terminated by LF, CRLF or CR, the last one terminated or not;  *)
(* and plain files of unquoted lines.                                      *)
FieldChars == {"a", DELIMITER, QUOTE, LF, CR}

StringsOver(chars, hi) == UNION {[1..k -> chars] : k \in 0..hi}

Terminators == {<<LF>>, <<CR, LF>>, <<CR>>}

RECURSIVE Doubled(_)
Doubled(field) ==
    IF field = <<>> THEN <<>>
    ELSE (IF Head(field) = QUOTE THEN <<QUOTE, QUOTE>> ELSE <<Head(field)>>)
         \o Doubled(Tail(field))

Quoted(field) == <<QUOTE>> \o Doubled(field) \o <<QUOTE>>

RECURSIVE JoinWith(_, _)
JoinWith(strings, separator) ==
    IF strings = <<>> THEN <<>>
    ELSE IF Len(strings) = 1 THEN strings[1]
    ELSE strings[1] \o separator \o JoinWith(Tail(strings), separator)

WriteRecord(record) ==
    JoinWith([c \in 1..Len(record) |-> Quoted(record[c])], <<DELIMITER>>)

WriteTable(table, terminator, terminated) ==
    JoinWith([r \in 1..Len(table) |-> WriteRecord(table[r])], terminator)
    \o (IF terminated THEN terminator ELSE <<>>)

CsvInput(kind, table, terminator, terminated, content) ==
    [kind |-> kind, table |-> table, terminator |-> terminator,
     terminated |-> terminated, content |-> content]

\* One column, one data record, fields of at most MaxField characters.
InitCsvOneColumn ==
    \E header \in StringsOver(FieldChars, 1), field \in StringsOver(FieldChars, MaxField),
       terminator \in Terminators, terminated \in BOOLEAN :
        input = CsvInput("quoted", << <<header>>, <<field>> >>, terminator, terminated,
                         WriteTable(<< <<header>>, <<field>> >>, terminator, terminated))

\* Two columns, one or two data records, fields of at most one character.
InitCsvTwoColumns ==
    \E header \in [1..2 -> StringsOver(FieldChars, 1)],
       first \in [1..2 -> StringsOver(FieldChars, 1)],
       second \in {<<>>} \cup [1..2 -> {<<"a">>, <<LF>>, <<CR>>}],
       terminator \in Terminators, terminated \in BOOLEAN :
        LET table == IF second = <<>> THEN <<header, first>> ELSE <<header, first, second>>
        IN  input = CsvInput("quoted", table, terminator, terminated,
                             WriteTable(table, terminator, terminated))

\* Unquoted lines over "a" and the delimiter.
InitCsvPlain ==
    \E table \in SeqsOf(StringsOver({"a", DELIMITER}, 2), 1, 3),
       terminator \in Terminators, terminated \in BOOLEAN :
        input = CsvInput("plain", table, terminator, terminated,
                         JoinWith(table, terminator)
                         \o (IF terminated THEN terminator ELSE <<>>))

InitCsv ==
    /\ calls = <<>>
    /\ clock = 0
    /\ InitCsvOneColumn \/ InitCsvTwoColumns \/ InitCsvPlain

CallParseCsv ==
    /\ Len(calls) < 1
    /\ calls' = Append(calls, [fn |-> "parseCsv", outcome |-> parseCsv(input.content)])
    /\ UNCHANGED <<input, clock>>

NextCsv == CallParseCsv

SpecCsv == InitCsv /\ [][NextCsv]_vars

(***************************************************************************)
(* C18. parseCsv reads a quoted field as one cell of one record even when *)
(* it holds the delimiter or a line break, and each doubled quote inside  *)
(* it as one quote character: a table written with quoted fields is read  *)
(* back with its header fields as headers and one row per data record,    *)
(* each cell the (trimmed) field.  Headers and rows are the same whether  *)
(* records are terminated by LF, CRLF or CR.                               *)
(***************************************************************************)
\* The rows a table of quoted fields must be read as.
RowsOf(table) ==
    [r \in 1..(Len(table) - 1) |->
        [h \in {table[1][c] : c \in 1..Len(table[1])} |->
            LET c == CHOOSE c \in 1..Len(table[1]) :
                         /\ table[1][c] = h
                         /\ \A d \in 1..Len(table[1]) : table[1][d] = h => d <= c
                cell == trim(table[r + 1][c])
            IN  IF cell = <<>> THEN [k |-> "null", s |-> <<>>]
                ELSE [k |-> "string", s |-> cell]]]

\* The same file with LF as the record terminator.
WithLF ==
    IF input.kind = "quoted" THEN WriteTable(input.table, <<LF>>, input.terminated)
    ELSE JoinWith(input.table, <<LF>>) \o (IF input.terminated THEN <<LF>> ELSE <<>>)

C18_ParseCsv ==
    \A i \in 1..Len(calls) :
        /\ input.kind = "quoted"
           => /\ calls[i].outcome.headers = input.table[1]
              /\ calls[i].outcome.rows = RowsOf(input.table)
        /\ calls[i].outcome = parseCsv(WithLF)

\* Two records of two fields, terminated by CR, with a delimiter, a quote
\* and a line break inside quoted fields.
C18_Witness ==
    /\ Len(calls) = 1
    /\ input.kind = "quoted"
    /\ input.terminator = <<CR>>
    /\ input.table = << << <<"a">>, <<DELIMITER>> >>, << <<QUOTE>>, <<LF>> >> >>
    /\ Len(calls[1].outcome.rows) = 1
    /\ calls[1].outcome.rows[1][<<"a">>] = [k |-> "string", s |-> <<QUOTE>>]
    /\ calls[1].outcome.rows[1][<<DELIMITER>>] = [k |-> "null", s |-> <<>>]

(***************************************************************************)
(* C19. parseEvalFile on content detected as csv or jsonl, with a         *)
(* contract that has no sources entry for that type, always fails with a  *)
(* configuration error and returns no result; on json content without     *)
(* sources.json it returns a result only if the document carries evalName *)
(* and metrics at top level, and otherwise fails with an error telling    *)
(* the caller to add a source config.                                      *)
(***************************************************************************)
\* The errors that tell the caller to add a source config.
ConfigurationErrors ==
    {"CSV files require a source config in the contract",
     "Could not auto-detect eval format"}

WithoutSourceConfig == ~input.contract.sources[detectFileType(input.file)].present

\* Contents that are one JSON document.
JsonDocuments == {"object", "array", "null"}

C19_ConfigRequired ==
    \A i \in 1..Len(calls) :
        (calls[i].fn = "parseEvalFile" /\ WithoutSourceConfig)
        => /\ detectFileType(input.file) \in {"csv", "jsonl"}
              => /\ calls[i].outcome.kind = "error"
                 /\ calls[i].outcome.error \in ConfigurationErrors
           /\ (detectFileType(input.file) = "json" /\ input.file.shape \in JsonDocuments)
              => IF calls[i].outcome.kind = "result"
                 THEN input.file.evalName # "absent" /\ input.file.metrics # "absent"
                 ELSE calls[i].outcome.error \in ConfigurationErrors

(***************************************************************************)
(* Semantic validation (packages/core/src/contracts/validator.ts).        *)
(* An issue is its code and its path: the required eval's name, the       *)
(* rule's index (from 0; -1 when the path names no rule) and the field.   *)
(***************************************************************************)
ValidationIssue(evalName, ruleIndex, field, code) ==
    [eval |-> evalName, rule |-> ruleIndex, field |-> field, code |-> code]

ValidationResult(errors, warnings) ==
    [kind |-> "result", valid |-> Len(errors) = 0, errors |-> errors,
     warnings |-> warnings, error |-> ""]

ValidationThrown(error) ==
    [kind |-> "error", valid |-> FALSE, errors |-> <<>>, warnings |-> <<>>,
     error |-> error]

validateRule(rule, evalName, i) ==
    [errors |->
        IF rule.baseline = "fixed" /\ rule.threshold = UNDEF
        THEN <<ValidationIssue(evalName, i, "threshold", "missing_threshold")>>
        ELSE <<>>,
     warnings |->
        (IF /\ rule.baseline \in {"previous", "main"}
            /\ rule.maxDelta = UNDEF
            /\ rule.operator \notin {"==", "!="}
         THEN <<ValidationIssue(evalName, i, "maxDelta", "missing_max_delta")>>
         ELSE <<>>)
        \o (IF rule.maxDelta # UNDEF /\ rule.maxDelta = Num(0)
            THEN <<ValidationIssue(evalName, i, "maxDelta", "zero_tolerance")>>
            ELSE <<>>)]

\* The inner loop of validateContract, over the rules of one required eval
\* from index i (counted from 0).
RECURSIVE validateRules(_, _, _)
validateRules(reqEval, i, issues) ==
    IF i >= Len(reqEval.rules) THEN issues
    ELSE LET ruleIssues == validateRule(reqEval.rules[i + 1], reqEval.name, i)
         IN  validateRules(reqEval, i + 1,
                 [errors |-> issues.errors \o ruleIssues.errors,
                  warnings |-> issues.warnings \o ruleIssues.warnings])

\* The outer loop of validateContract, from the k-th required eval.
RECURSIVE validateRequiredEvals(_, _, _, _)
validateRequiredEvals(requiredEvals, k, evalNames, issues) ==
    IF k > Len(requiredEvals) THEN issues
    ELSE LET reqEval == requiredEvals[k]
             named == IF reqEval.name \in evalNames
                      THEN [issues EXCEPT !.errors = Append(issues.errors,
                               ValidationIssue(reqEval.name, -1, "", "duplicate_eval_name"))]
                      ELSE issues
         IN  validateRequiredEvals(requiredEvals, k + 1,
                 evalNames \cup {reqEval.name}, validateRules(reqEval, 0, named))

\* validateContract; iterating contract.requiredEvals throws when the
\* contract has none.  An absent description reads as "".
validateContract(contract) ==
    IF ~contract.hasRequiredEvals
    THEN ValidationThrown("TypeError: contract.requiredEvals is not iterable")
    ELSE LET issues == validateRequiredEvals(contract.requiredEvals, 1, {},
                           [errors |-> <<>>, warnings |-> <<>>])
         IN  ValidationResult(issues.errors,
                 issues.warnings
                 \o (IF contract.environment = "production" /\ contract.description = ""
                     THEN <<ValidationIssue("", -1, "description", "missing_description")>>
                     ELSE <<>>))

(* Inputs: contracts in the legacy form with every kind of rule, with     *)
(* repeated eval names, for two environments, with and without a          *)
(* description; contracts in the policy form, with and without            *)
(* requiredEvals.                                                          *)
ValidatorRules ==
    {Rule("accuracy", op, baseline, threshold, maxDelta) :
        op \in {">=", "=="}, baseline \in {"fixed", "previous", "main"},
        threshold \in {UNDEF, Num(1)}, maxDelta \in {UNDEF, Num(0), Num(1)}}

NamedRules ==
    {Rule("accuracy", ">=", "fixed", Num(1), UNDEF),
     Rule("accuracy", ">=", "fixed", UNDEF, UNDEF),
     Rule("accuracy", ">=", "previous", UNDEF, UNDEF)}

Descriptions == {"", "Gate for releases"}

Described(contract, environment, description) ==
    [f \in DOMAIN contract \cup {"description"} |->
        IF f = "description" THEN description
        ELSE IF f = "environment" THEN environment
        ELSE contract[f]]

ValidatorInput(contract) ==
    EngineInput(contract, <<EvalResult("quality", Num(1), Num(1))>>,
                BaselinesFor("quality", BaselineData(Num(1), UNDEF)), FALSE, <<>>, "")

\* One required eval with one or two rules of any kind.
InitValidateRules ==
    \E rules \in SeqsOf(ValidatorRules, 1, 2),
       environment \in {"production", "staging"}, description \in Descriptions :
        input = ValidatorInput(Described(
                    LegacyContract(TRUE, <<[name |-> "quality", rules |-> rules]>>, "block"),
                    environment, description))

\* At most MaxRules required evals of one rule each, names repeating.
InitValidateNames ==
    \E requiredEvals \in SeqsOf({[name |-> nm, rules |-> <<r>>] :
                                    nm \in EvalNames, r \in NamedRules}, 0, MaxRules),
       environment \in {"production", "staging"}, description \in Descriptions :
        input = ValidatorInput(Described(
                    LegacyContract(TRUE, requiredEvals, "block"),
                    environment, description))

\* Policy form: a policy of one rule, with or without requiredEvals.
InitValidatePolicy ==
    \E rule \in {r \in PolicyRules : r.when.kind = "signal" \/ r.when.baseline = "fixed"},
       requiredEvals \in {<<>>} \cup {<<[name |-> "quality", rules |-> <<r>>]>> : r \in NamedRules},
       environment \in {"production", "staging"}, description \in Descriptions :
        input = ValidatorInput(Described(
                    PolicyContract(Policy(<<rule>>, <<>>, "none"),
                                   requiredEvals # <<>>, requiredEvals, "block"),
                    environment, description))

InitValidate ==
    /\ calls = <<>>
    /\ clock = 0
    /\ InitValidateRules \/ InitValidateNames \/ InitValidatePolicy

CallValidateContract ==
    /\ Len(calls) < 2
    /\ calls' = Append(calls, [fn |-> "validateContract",
                               outcome |-> validateContract(input.contract)])
    /\ UNCHANGED <<input, clock>>

NextValidate == CallValidateContract \/ CallEvaluate

SpecValidate == InitValidate /\ [][NextValidate]_vars

(***************************************************************************)
(* C20. validateContract returns, for every contract that evaluate        *)
(* accepts (legacy form or policy form), a result whose errors are        *)
(* exactly one entry per repeated required-eval name and one per          *)
(* fixed-baseline rule without threshold, and whose valid flag is true    *)
(* iff errors is empty; warnings never make valid false.                   *)
(***************************************************************************)
\* evaluate returns a decision for the contract.
EvaluateAccepts == evaluate(input, 0).kind = "decision"

\* Positions of required evals whose name an earlier one carries.
RepeatedNames ==
    {k \in 1..Len(input.contract.requiredEvals) :
        \E j \in 1..(k - 1) :
            input.contract.requiredEvals[j].name = input.contract.requiredEvals[k].name}

\* Rules (eval position, rule index from 0) with a fixed baseline and no
\* threshold.
FixedWithoutThreshold ==
    {<<k, i>> \in (1..Len(input.contract.requiredEvals)) \X (0..MaxRules) :
        /\ i < Len(input.contract.requiredEvals[k].rules)
        /\ input.contract.requiredEvals[k].rules[i + 1].baseline = "fixed"
        /\ input.contract.requiredEvals[k].rules[i + 1].threshold = UNDEF}

ErrorsOf(outcome, code) == {e \in 1..Len(outcome.errors) : outcome.errors[e].code = code}

C20_ValidateContract ==
    \A c \in 1..Len(calls) :
        (calls[c].fn = "validateContract" /\ EvaluateAccepts)
        => LET outcome == calls[c].outcome
           IN  /\ outcome.kind = "result"
               /\ Cardinality(ErrorsOf(outcome, "duplicate_eval_name"))
                    = Cardinality(RepeatedNames)
               /\ \A e \in ErrorsOf(outcome, "duplicate_eval_name") :
                      \E k \in RepeatedNames :
                          outcome.errors[e].eval = input.contract.requiredEvals[k].name
               /\ Cardinality(ErrorsOf(outcome, "missing_threshold"))
                    = Cardinality(FixedWithoutThreshold)
               /\ \A ki \in FixedWithoutThreshold :
                      \E e \in ErrorsOf(outcome, "missing_threshold") :
                          /\ outcome.errors[e].eval = input.contract.requiredEvals[ki[1]].name
                          /\ outcome.errors[e].rule = ki[2]
               /\ Len(outcome.errors)
                    = Cardinality(RepeatedNames) + Cardinality(FixedWithoutThreshold)
               /\ outcome.valid <=> outcome.errors = <<>>

\* The statement restricted to the contracts that carry requiredEvals.
RequiredEvalsValidated ==
    input.contract.hasRequiredEvals => C20_ValidateContract

(***************************************************************************)
(* Hashing of decision inputs (packages/core/src/decisions/hashing.ts).   *)
(* A JSON-serialisable value is a scalar or an object or array of         *)
(* members, in insertion order; an array's members have the key "".       *)
(***************************************************************************)
JScalar(v) == [k |-> v.k, n |-> v.n, s |-> v.s, members |-> <<>>]
JNaN == [k |-> "nan", n |-> 0, s |-> "", members |-> <<>>]
JInfinity(sign) == [k |-> "infinity", n |-> sign, s |-> "", members |-> <<>>]
JObject(members) == [k |-> "object", n |-> 0, s |-> "", members |-> members]
JArray(items) ==
    [k |-> "array", n |-> 0, s |-> "",
     members |-> [i \in 1..Len(items) |-> [key |-> "", value |-> items[i]]]]
Member(key, value) == [key |-> key, value |-> value]

\* JSON.stringify(value, null, 0), as the sequence of its tokens.  A
\* non-finite number is written null; a member whose value is undefined is
\* left out of an object and written null in an array.
RECURSIVE JsonStringify(_)
JsonStringify(v) ==
    CASE v.k = "number" -> <<NumberToString(v.n)>>
      [] v.k \in {"nan", "infinity", "null"} -> <<"null">>
      [] v.k = "string" -> <<"\"", v.s, "\"">>
      [] v.k = "boolean" -> <<IF v.n = 1 THEN "true" ELSE "false">>
      [] v.k = "undefined" -> <<"null">>
      [] v.k = "array" ->
           <<"[">> \o JoinWith([i \in 1..Len(v.members) |->
                          JsonStringify(v.members[i].value)], <<",">>)
           \o <<"]">>
      [] v.k = "object" ->
           LET kept == SelectSeq(v.members, LAMBDA m : m.value.k # "undefined")
           IN  <<"{">> \o JoinWith([i \in 1..Len(kept) |->
                              <<"\"", kept[i].key, "\"", ":">>
                              \o JsonStringify(kept[i].value)], <<",">>)
               \o <<"}">>

\* SHA-256 in hex: 64 characters; no two contents of the model collide.
DigestLength == 64

hashString(content) == [of |-> content, length |-> DigestLength]

hashEvalResults(results) == hashString(JsonStringify(results))

hashSignals(signals) == hashString(JsonStringify(signals))

hashContract(contract) == hashString(JsonStringify(contract))

(* Inputs: an object and a second one, either a clone of the first or the *)
(* first with the value of one field changed.                              *)
\* Paths (member positions) to the scalar fields of a value.
RECURSIVE FieldPaths(_)
FieldPaths(v) ==
    IF v.k \notin {"object", "array"} THEN {<<>>}
    ELSE UNION {{<<i>> \o path : path \in FieldPaths(v.members[i].value)} :
                    i \in 1..Len(v.members)}

RECURSIVE FieldAt(_, _)
FieldAt(v, path) ==
    IF path = <<>> THEN v ELSE FieldAt(v.members[Head(path)].value, Tail(path))

RECURSIVE WithField(_, _, _)
WithField(v, path, new) ==
    IF path = <<>> THEN new
    ELSE [v EXCEPT !.members[Head(path)].value = WithField(@, Tail(path), new)]

\* The key of the field a path ends at.
RECURSIVE FieldKey(_, _)
FieldKey(v, path) ==
    IF Len(path) = 1 THEN v.members[Head(path)].key
    ELSE FieldKey(v.members[Head(path)].value, Tail(path))

JNumbers == {JScalar(Num(n)) : n \in 0..MaxValue} \cup {JNaN, JInfinity(1), JInfinity(-1)}
JStrings == {JScalar(Str(s)) : s \in {"quality", "safety"}}
\* Signal.value is of type unknown.
JSignalValues ==
    {JScalar(Num(0)), JScalar(Num(1)), JScalar(Str("high")), JScalar(Bool(TRUE)),
     JScalar(NULL), JScalar(UNDEF), JNaN}

\* The other values a field may take.
OtherValues(key, value) ==
    (IF key = "value" THEN JSignalValues
     ELSE IF value.k \in {"number", "nan", "infinity"} THEN JNumbers
     ELSE IF value.k = "undefined" THEN JNumbers \cup {JScalar(UNDEF)}
     ELSE IF value.k = "string" THEN JStrings \cup {value}
     ELSE {value}) \ {value}

HashInput(fn, first, second, changed) ==
    [fn |-> fn, first |-> first, second |-> second, changed |-> changed]

\* first with a clone of it, and with each one-field change of it.
HashInputs(fn, first) ==
    {HashInput(fn, first, first, <<>>)}
    \cup UNION {{HashInput(fn, first, WithField(first, path, new), path) :
                    new \in OtherValues(FieldKey(first, path), FieldAt(first, path))} :
                path \in FieldPaths(first)}

JEvalResult(accuracy) ==
    JObject(<<Member("evalName", JScalar(Str("quality"))),
              Member("runId", JScalar(Str("run-1"))),
              Member("metrics", JObject(<<Member("accuracy", accuracy)>>))>>)

JSignal(value) ==
    JObject(<<Member("id", JScalar(Str("sig-1"))),
              Member("type", JScalar(Str("eval"))),
              Member("name", JScalar(Str("quality"))),
              Member("value", value)>>)

JContract(environment, operator, threshold, maxDelta) ==
    JObject(<<Member("version", JScalar(Num(1))),
              Member("name", JScalar(Str("release-gate"))),
              Member("environment", JScalar(Str(environment))),
              Member("requiredEvals", JArray(<<
                  JObject(<<Member("name", JScalar(Str("quality"))),
                            Member("rules", JArray(<<
                                JObject(<<Member("metric", JScalar(Str("accuracy"))),
                                          Member("operator", JScalar(Str(operator))),
                                          Member("baseline", JScalar(Str("fixed"))),
                                          Member("threshold", threshold),
                                          Member("maxDelta", maxDelta)>>)>>))>>)>>)),
              Member("onViolation", JObject(<<Member("action", JScalar(Str("block")))>>))>>)

InitHashEvalResults ==
    \E accuracies \in SeqsOf(JNumbers, 1, MaxResults) :
        input \in HashInputs("hashEvalResults",
                     JArray([i \in 1..Len(accuracies) |-> JEvalResult(accuracies[i])]))

InitHashSignals ==
    \E values \in SeqsOf(JSignalValues, 0, MaxSignals) :
        input \in HashInputs("hashSignals",
                     JArray([i \in 1..Len(values) |-> JSignal(values[i])]))

InitHashContract ==
    \E environment \in {"production", "staging"}, operator \in {">=", "=="},
       threshold \in JNumbers, maxDelta \in {JScalar(UNDEF), JScalar(Num(0))} :
        input \in HashInputs("hashContract",
                     JContract(environment, operator, threshold, maxDelta))

InitHashing ==
    /\ calls = <<>>
    /\ clock = 0
    /\ InitHashEvalResults \/ InitHashSignals \/ InitHashContract

CallHashEvalResults ==
    /\ Len(calls) < 2
    /\ input.fn = "hashEvalResults"
    /\ \E arg \in {"first", "second"} :
        calls' = Append(calls, [fn |-> input.fn, arg |-> arg,
                                outcome |-> hashEvalResults(input[arg])])
    /\ UNCHANGED <<input, clock>>

CallHashSignals ==
    /\ Len(calls) < 2
    /\ input.fn = "hashSignals"
    /\ \E arg \in {"first", "second"} :
        calls' = Append(calls, [fn |-> input.fn, arg |-> arg,
                                outcome |-> hashSignals(input[arg])])
    /\ UNCHANGED <<input, clock>>

CallHashContract ==
    /\ Len(calls) < 2
    /\ input.fn = "hashContract"
    /\ \E arg \in {"first", "second"} :
        calls' = Append(calls, [fn |-> input.fn, arg |-> arg,
                                outcome |-> hashContract(input[arg])])
    /\ UNCHANGED <<input, clock>>

NextHashing == CallHashEvalResults \/ CallHashSignals \/ CallHashContract

SpecHashing == InitHashing /\ [][NextHashing]_vars

(***************************************************************************)
(* C21. Hash stability: hashContract, hashEvalResults and hashSignals     *)
(* return the same 64-character hex digest for the same object and for a  *)
(* deep-equal clone with identical key insertion order, on every call,    *)
(* and changing the value of any field of the input changes the digest.   *)
(***************************************************************************)
C21_HashStability ==
    \A i \in 1..Len(calls), j \in 1..Len(calls) :
        /\ calls[i].outcome.length = 64
        /\ input[calls[i].arg] = input[calls[j].arg]
           => calls[i].outcome = calls[j].outcome
        /\ input[calls[i].arg] # input[calls[j].arg]
           => calls[i].outcome # calls[j].outcome

\* The part that holds: equal objects have equal digests on every call.
HashRepeatable ==
    \A i \in 1..Len(calls), j \in 1..Len(calls) :
        /\ calls[i].outcome.length = 64
        /\ input[calls[i].arg] = input[calls[j].arg]
           => calls[i].outcome = calls[j].outcome

\* Changing a field among values JSON can write changes the digest.
JsonWritable(v) == v.k \notin {"nan", "infinity", "undefined"}

HashChangesOnWritableValues ==
    \A i \in 1..Len(calls), j \in 1..Len(calls) :
        (/\ input.first # input.second
         /\ calls[i].arg # calls[j].arg
         /\ JsonWritable(FieldAt(input.first, input.changed))
         /\ JsonWritable(FieldAt(input.second, input.changed)))
        => calls[i].outcome # calls[j].outcome

(***************************************************************************)
(* CLI commands that evaluate a contract: check (packages/cli/src/        *)
(* commands/check.ts) and explain.  A command loads its files, calls      *)
(* evaluate and ends the process with an exit code; a failure to load or  *)
(* parse a file throws before evaluate is called.                          *)
(***************************************************************************)
EXIT_CODES == [PASS |-> 0, BLOCK |-> 1, REQUIRES_APPROVAL |-> 2, ERROR |-> 3]

Exit(code, outcome) == [kind |-> "exit", code |-> code, decision |-> outcome]

getExitCode(decision) ==
    CASE decision.status = "PASS" -> EXIT_CODES.PASS
      [] decision.status = "BLOCK" -> EXIT_CODES.BLOCK
      [] decision.status = "REQUIRES_APPROVAL" -> EXIT_CODES.REQUIRES_APPROVAL
      [] OTHER -> EXIT_CODES.ERROR

\* checkCommand: evaluate({contract, evalResults, baselines}).
checkCommand(in, loaded, timestamp) ==
    IF ~loaded THEN Exit(EXIT_CODES.ERROR, Thrown("Contract file not found"))
    ELSE LET decision == evaluate([in EXCEPT !.hasSignals = FALSE, !.signals = <<>>,
                                             !.environment = ""], timestamp)
         IN  IF decision.kind = "error" THEN Exit(EXIT_CODES.ERROR, decision)
             ELSE Exit(getExitCode(decision), decision)

\* explainCommand: evaluate({contract, evalResults, baselines, signals,
\* environment}), signals [] when no file is given.
explainCommand(in, loaded, timestamp) ==
    IF ~loaded THEN Exit(3, Thrown("Contract file not found"))
    ELSE LET environment == IF in.environment # "" THEN in.environment
                            ELSE IF in.contract.environment # ""
                            THEN in.contract.environment
                            ELSE "production"
             decision == evaluate([in EXCEPT !.hasSignals = TRUE,
                                             !.signals = IF in.hasSignals THEN in.signals
                                                         ELSE <<>>,
                                             !.environment = environment], timestamp)
         IN  IF decision.kind = "error" THEN Exit(3, decision)
             ELSE Exit(IF decision.status = "PASS" THEN 0 ELSE 1, decision)

CallCheckCommand ==
    /\ Len(calls) < 1
    /\ \E loaded \in BOOLEAN :
        calls' = Append(calls, [fn |-> "check",
                                outcome |-> checkCommand(input, loaded, clock)])
    /\ clock' = clock + 1
    /\ UNCHANGED input

CallExplainCommand ==
    /\ Len(calls) < 1
    /\ \E loaded \in BOOLEAN :
        calls' = Append(calls, [fn |-> "explain",
                                outcome |-> explainCommand(input, loaded, clock)])
    /\ clock' = clock + 1
    /\ UNCHANGED input

NextCli == CallCheckCommand \/ CallExplainCommand

SpecCli == Init /\ [][NextCli]_vars

(***************************************************************************)
(* C22. Exit-code contract: every CLI command that evaluates a contract   *)
(* (check, explain) exits with 0 when the Decision status is PASS, 1 when *)
(* it is BLOCK, 2 when it is REQUIRES_APPROVAL, and 3 when loading,       *)
(* parsing or evaluation throws; no status maps to another status's code. *)
(***************************************************************************)
ExitCodeContract(call) ==
    call.outcome.code =
        IF call.outcome.decision.kind = "error" THEN 3
        ELSE CASE call.outcome.decision.status = "PASS" -> 0
               [] call.outcome.decision.status = "BLOCK" -> 1
               [] call.outcome.decision.status = "REQUIRES_APPROVAL" -> 2

C22_ExitCodes ==
    \A i \in 1..Len(calls) : ExitCodeContract(calls[i])

\* The contract holds for check.
CheckExitCodes ==
    \A i \in 1..Len(calls) : calls[i].fn = "check" => ExitCodeContract(calls[i])

(***************************************************************************)
(* C23. A policy eval condition consults only the first result, in        *)
(* evalResults order, whose metrics contain the named metric: results     *)
(* before it that lack the metric are skipped, and no later result that   *)
(* also defines the metric can change the condition's value; if no result *)
(* contains the metric the condition is false.  The policy is one rule    *)
(* that blocks when the condition is true, so the condition's value is    *)
(* read off the decision.                                                  *)
(***************************************************************************)
EvalConditionPolicy ==
    /\ input.contract.hasPolicy
    /\ Len(input.contract.policy.rules) = 1
    /\ \A e \in Environments : ~input.contract.policy.environments[e].present
    /\ input.contract.policy.rules[1].when.kind = "eval"
    /\ input.contract.policy.rules[1].action = "block"

\* The outcome of the same call on the given results.
SameCallOn(call, results) ==
    IF call.fn = "evaluate"
    THEN evaluate([input EXCEPT !.evalResults = results], 0)
    ELSE evaluatePolicy(input.contract, results, input.signals,
             IF input.environment # "" THEN input.environment ELSE "production",
             [defined |-> TRUE, entries |-> input.baselines], 0)

C23_FirstResultWithMetric ==
    \A i \in 1..Len(calls) :
        (EvalConditionPolicy /\ calls[i].fn \in {"evaluate", "evaluatePolicy"})
        => LET metric == input.contract.policy.rules[1].when.metric
               only == SameCallOn(calls[i],
                           IF Holding(metric) = {} THEN <<>> ELSE <<FirstHolding(metric)>>)
           IN  /\ calls[i].outcome.kind = only.kind
               /\ calls[i].outcome.status = only.status
               /\ Holding(metric) = {}
                  => IsDecision(calls[i].outcome) /\ calls[i].outcome.status # "BLOCK"

\* Three results: the first lacks the metric, the second holds it with a
\* value that satisfies the condition, the third with one that does not.
C23_Witness ==
    /\ EvalConditionPolicy
    /\ input.contract.policy.rules[1].when = EvalCondition("accuracy", ">=", "fixed", Num(1), UNDEF)
    /\ Len(input.evalResults) = 3
    /\ input.evalResults[1].metrics["accuracy"] = UNDEF
    /\ input.evalResults[2].metrics["accuracy"] = Num(MaxValue)
    /\ input.evalResults[3].metrics["accuracy"] = Num(0)
    /\ Len(calls) = 1
    /\ calls[1].outcome.status = "BLOCK"

(***************************************************************************)
(* C24. A signal condition with operator and value is true iff some       *)
(* signal passing the type/name filter has a resolved value that          *)
(* satisfies compareValues against the condition value, where, when a     *)
(* field is named, the resolved value is value[field] if the signal's     *)
(* value is an object containing that field, else metadata[field] if      *)
(* present, else the signal is skipped; and where, if exactly one of the  *)
(* two sides is a string, the other side is converted to its string form  *)
(* before comparing.                                                       *)
(***************************************************************************)
\* The value the condition reads from a signal; UNDEF when it is skipped.
ResolvedValue(condition, signal) ==
    IF condition.field = "" THEN signal.value
    ELSE IF signal.value.k = "object" /\ signal.fields[condition.field] # UNDEF
    THEN signal.fields[condition.field]
    ELSE signal.metadata[condition.field]

\* The comparison after the conversion of the side that is not a string.
SatisfiesCondition(resolved, condition) ==
    IF (resolved.k = "string") # (condition.value.k = "string")
    THEN compareValues(Str(String(resolved)), condition.operator,
                       Str(String(condition.value)))
    ELSE compareValues(resolved, condition.operator, condition.value)

ValueConditionPolicy ==
    /\ SignalConditionPolicy
    /\ input.contract.policy.rules[1].when.operator # ""
    /\ input.contract.policy.rules[1].when.value # UNDEF

C24_SignalValue ==
    \A i \in 1..Len(calls) :
        ValueConditionPolicy
        => LET condition == input.contract.policy.rules[1].when
           IN  /\ IsDecision(calls[i].outcome)
               /\ calls[i].outcome.status = "BLOCK"
                  <=> \E k \in PassingFilter(condition) :
                          /\ ResolvedValue(condition, input.signals[k]) # UNDEF
                          /\ SatisfiesCondition(ResolvedValue(condition, input.signals[k]),
                                                condition)

\* The statement for signals whose metadata holds no empty string.
SignalValueOnNonEmptyMetadata ==
    (\A k \in 1..Len(input.signals) : input.signals[k].metadata["level"] # Str(""))
    => C24_SignalValue

(***************************************************************************)
(* The adapters' parse().  Beside what supports() reads, parse reads the  *)
(* payload's run id field (evalId, run_metadata.run_name, eval_id or      *)
(* runId: a string or absent) and validates the payload against the       *)
(* adapter's schema; wellTyped tells whether the values supports() does   *)
(* not look at have the types the schema asks for.  A string is the       *)
(* sequence of its parts, "" the empty sequence.                           *)
(***************************************************************************)
Parsed(runId) == [kind |-> "result", runId |-> runId, error |-> ""]

ParseThrown(error) == [kind |-> "error", runId |-> <<>>, error |-> error]

\* results: an optional array of objects.
resultsArrayOrAbsent(data) ==
    ~data.results.present
    \/ (data.results.isArray /\ (data.results.length > 0 => data.results.firstIsObject))

\* id ?? `<prefix>-${Date.now()}`
orGenerated(id, prefix, now) ==
    IF id = UNDEF THEN <<prefix, NumberToString(now)>>
    ELSE IF id.s = "" THEN <<>> ELSE <<id.s>>

PromptfooParse(data, id, wellTyped, now) ==
    IF data.isObject /\ data.results.present /\ resultsArrayOrAbsent(data)
       /\ (data.results.length > 0 => "success" \in data.results.firstKeys)
       /\ wellTyped
    THEN Parsed(orGenerated(id, "promptfoo-", now))
    ELSE ParseThrown("Invalid Promptfoo format")

LangSmithParse(data, id, wellTyped, now) ==
    IF data.isObject /\ resultsArrayOrAbsent(data) /\ data.examples # "other" /\ wellTyped
    THEN Parsed(orGenerated(id, "langsmith-", now))
    ELSE ParseThrown("Invalid LangSmith format")

OpenEvalsParse(data, id, wellTyped, now) ==
    IF data.isObject /\ resultsArrayOrAbsent(data) /\ data.metrics # "other"
       /\ (data.summary.present => data.summary.isObject) /\ wellTyped
    THEN Parsed(orGenerated(id, "openevals-", now))
    ELSE ParseThrown("Invalid OpenEvals format")

\* GenericEvalSchema: evalName and runId are strings of at least one
\* character, metrics is a record.
GenericParse(data, id, wellTyped, now) ==
    IF data.isObject /\ data.evalName = "string" /\ data.metrics = "object"
       /\ id # UNDEF /\ id.s # "" /\ wellTyped
    THEN Parsed(<<id.s>>)
    ELSE ParseThrown("Invalid generic eval format")

parse(adapter, data, id, wellTyped, now) ==
    CASE adapter = "promptfoo" -> PromptfooParse(data, id, wellTyped, now)
      [] adapter = "langsmith" -> LangSmithParse(data, id, wellTyped, now)
      [] adapter = "openevals" -> OpenEvalsParse(data, id, wellTyped, now)
      [] adapter = "generic" -> GenericParse(data, id, wellTyped, now)

(* Inputs: an adapter, a payload and its run id field.                     *)
ParsePayloads ==
    {d \in Payloads :
        /\ d.results.firstKeys \in {{}, {"success"}, {"feedback"}, {"scores"}}
        /\ d.summary.keys \in {{}, {"accuracy"}}
        /\ d.keys \in {{}, {"eval_name"}}}

RunIdFields == {UNDEF, Str(""), Str("run-1")}

InitAdapterParse ==
    /\ calls = <<>>
    /\ clock = 0
    /\ \E adapter \in {ADAPTERS[k] : k \in 1..Len(ADAPTERS)},
          data \in ParsePayloads, id \in RunIdFields, wellTyped \in BOOLEAN :
        input = [adapter |-> adapter, data |-> data, id |-> id, wellTyped |-> wellTyped]

CallSupports ==
    /\ Len(calls) < 1
    /\ calls' = Append(calls,
           [fn |-> "supports",
            outcome |-> [kind |-> IF supports(input.adapter, input.data)
                                  THEN "true" ELSE "false",
                         runId |-> <<>>, error |-> ""]])
    /\ UNCHANGED <<input, clock>>

CallParse ==
    /\ Len(calls) < 1
    /\ calls' = Append(calls,
           [fn |-> "parse",
            outcome |-> parse(input.adapter, input.data, input.id, input.wellTyped, clock)])
    /\ clock' = clock + 1
    /\ UNCHANGED input

NextAdapterParse == CallSupports \/ CallParse

SpecAdapterParse == InitAdapterParse /\ [][NextAdapterParse]_vars

(***************************************************************************)
(* C25. Every adapter's parse (Promptfoo, LangSmith, OpenEvals, Generic)  *)
(* returns a result with a non-empty runId for any payload its own        *)
(* supports accepts with a well-typed shape, generating a run id when the *)
(* payload carries none.                                                   *)
(***************************************************************************)
\* The payload has the shape and the types the adapter's schema asks for;
\* the run id field is a string or absent.
WellTypedShape ==
    /\ input.wellTyped
    /\ resultsArrayOrAbsent(input.data)
    /\ input.data.examples # "other"
    /\ input.data.metrics # "other"
    /\ input.data.summary.present => input.data.summary.isObject

C25_RunId ==
    \A i \in 1..Len(calls) :
        (calls[i].fn = "parse" /\ supports(input.adapter, input.data) /\ WellTypedShape)
        => /\ calls[i].outcome.kind = "result"
           /\ calls[i].outcome.runId # <<>>
           /\ input.id = UNDEF => Len(calls[i].outcome.runId) = 2

\* The statement for the payloads that carry a non-empty run id, and for
\* the three tool adapters on payloads that carry none.
RunIdGivenOrGeneratedByTools ==
    (input.id = Str("run-1") \/ (input.id = UNDEF /\ input.adapter # "generic"))
    => C25_RunId

(***************************************************************************)
(* C26. OpenEvalsAdapter.supports is false for every payload carrying a   *)
(* top-level string evalName, and false for a payload that has a metrics  *)
(* object but none of eval_name, eval_id, dataset, a qualifying results   *)
(* array or a qualifying summary; hence a payload {evalName, metrics}     *)
(* that matches neither the Promptfoo nor the LangSmith sniff is always   *)
(* detected as generic.                                                    *)
(***************************************************************************)
QualifyingResults ==
    /\ input.results.present /\ input.results.isArray /\ input.results.length > 0
    /\ input.results.firstIsObject
    /\ input.results.firstKeys \cap {"scores", "passed"} # {}

QualifyingSummary ==
    /\ input.summary.present /\ input.summary.isObject
    /\ input.summary.keys \cap {"passed", "accuracy"} # {}

C26_OpenEvalsExclusion ==
    \A i \in 1..Len(calls) :
        /\ input.evalName = "string"
           => /\ ~supports("openevals", input)
              /\ calls[i].outcome.adapter # "openevals"
        /\ (input.metrics = "object" /\ input.keys = {}
            /\ ~QualifyingResults /\ ~QualifyingSummary)
           => /\ ~supports("openevals", input)
              /\ calls[i].outcome.adapter # "openevals"
        /\ (/\ input.isObject /\ input.evalName = "string" /\ input.metrics = "object"
            /\ ~supports("promptfoo", input) /\ ~supports("langsmith", input))
           => /\ calls[i].fn = "detectAdapter" => calls[i].outcome.adapter = "generic"
              /\ calls[i].fn = "parseEvalResult"
                 => calls[i].outcome.kind = "parse" /\ calls[i].outcome.adapter = "generic"

\* {evalName, metrics} with a summary and results OpenEvals would accept
\* and an eval_name: detected as generic.
C26_Witness ==
    /\ Len(calls) = 1
    /\ calls[1].fn = "detectAdapter"
    /\ input.evalName = "string"
    /\ input.metrics = "object"
    /\ QualifyingSummary
    /\ QualifyingResults
    /\ "eval_name" \in input.keys
    /\ calls[1].outcome.adapter = "generic"

(***************************************************************************)
(* aggregate() called on a column of values.                               *)
(***************************************************************************)
PercentileMethods == {"p50", "p90", "p95", "p99"}

\* The ten values 10, 20, ..., 100.
TenValues == [i \in 1..10 |-> Num(10 * i)]

Rotated(values, r) == [i \in 1..Len(values) |-> values[((i + r - 1) % Len(values)) + 1]]

Reversed(values) == [i \in 1..Len(values) |-> values[Len(values) + 1 - i]]

\* Permutations of 1..n, as sequences.
Orders(n) == {f \in [1..n -> 1..n] : \A i, j \in 1..n : f[i] = f[j] => i = j}

\* Short columns of numbers, booleans, strings and nulls.
InitColumn ==
    \E values \in SeqsOf(NumberValues \cup {Num(10), Bool(TRUE), Str("high"), NULL},
                         0, MaxRows) :
        input = [values |-> values]

\* The ten values in twenty orders, and their first values in every order.
InitTenValues ==
    \/ \E r \in 0..9, reversed \in BOOLEAN :
        input = [values |-> IF reversed THEN Reversed(Rotated(TenValues, r))
                            ELSE Rotated(TenValues, r)]
    \/ \E n \in 1..4 : \E order \in Orders(n) :
        input = [values |-> [i \in 1..n |-> TenValues[order[i]]]]

InitAggregate ==
    /\ calls = <<>>
    /\ clock = 0
    /\ InitColumn \/ InitTenValues

CallAggregate ==
    /\ Len(calls) < 2
    /\ \E method \in PercentileMethods :
        calls' = Append(calls, [fn |-> "aggregate", method |-> method,
                                outcome |-> aggregate(input.values, method)])
    /\ UNCHANGED <<input, clock>>

NextAggregate == CallAggregate

SpecAggregate == InitAggregate /\ [][NextAggregate]_vars

(***************************************************************************)
(* C27. The p50/p90/p95/p99 aggregations return the nearest-rank          *)
(* percentile of the numeric-coercible values: the element at index       *)
(* max(0, ceil(p/100 * n) - 1) of the ascending sort of the n values, and *)
(* 0 when n = 0; for the ten values 10, 20, ..., 100 this gives p50 = 50, *)
(* p90 = 90, p95 = 100 and p99 = 100, independent of the input order.     *)
(***************************************************************************)
PercentOf(method) ==
    CASE method = "p50" -> 50 [] method = "p90" -> 90
      [] method = "p95" -> 95 [] method = "p99" -> 99

\* Positions of the values that coerce to a number, and the numbers.
Coercible == {i \in 1..Len(input.values) : input.values[i].k \in {"number", "boolean"}}

NumberAt(i) == input.values[i].n

\* x is the element of the given rank (from 1) in ascending order: fewer
\* than rank values lie below x and at least rank values do not exceed it.
HasRank(x, rank) ==
    /\ \E i \in Coercible : NumberAt(i) = x
    /\ Cardinality({i \in Coercible : NumberAt(i) < x}) < rank
    /\ Cardinality({i \in Coercible : NumberAt(i) <= x}) >= rank

\* ceil(p / 100 * n), at least 1.
NearestRank(p, n) ==
    LET ceiling == CHOOSE c \in 0..n : 100 * c >= p * n /\ 100 * (c - 1) < p * n
    IN  IF ceiling < 1 THEN 1 ELSE ceiling

IsTenValues ==
    /\ Len(input.values) = 10
    /\ {input.values[i] : i \in 1..10} = {TenValues[i] : i \in 1..10}

C27_Percentile ==
    \A c \in 1..Len(calls) :
        LET n == Cardinality(Coercible)
            p == PercentOf(calls[c].method)
            result == calls[c].outcome
        IN  /\ result.k = "number"
            /\ n = 0 => result.n = 0
            /\ n > 0 => HasRank(result.n, NearestRank(p, n))
            /\ IsTenValues
               => result.n = CASE p = 50 -> 50 [] p = 90 -> 90 [] OTHER -> 100

\* The ten values, not in ascending order: p50 = 50 and p95 = 100.
C27_Witness ==
    /\ IsTenValues
    /\ input.values[1] = Num(40)
    /\ Len(calls) = 2
    /\ calls[1].method = "p50" /\ calls[1].outcome = Num(50)
    /\ calls[2].method = "p95" /\ calls[2].outcome = Num(100)

(***************************************************************************)
(* Eval diff (diffEvalResults, diffMetrics, isLowerBetterMetric).  A      *)
(* metric name is the sequence of its characters; the metrics of a result *)
(* are name/value pairs in insertion order, names distinct.                *)
(***************************************************************************)
lowerIsBetterPatterns ==
    <<<<"e", "r", "r", "o", "r">>,
      <<"r", "a", "t", "e">>,
      <<"l", "a", "t", "e", "n", "c", "y">>,
      <<"t", "i", "m", "e">>,
      <<"c", "o", "s", "t">>,
      <<"l", "o", "s", "s">>,
      <<"m", "i", "s", "s">>,
      <<"f", "a", "i", "l">>,
      <<"h", "a", "l", "l", "u", "c", "i", "n", "a", "t", "i", "o", "n">>,
      <<"t", "o", "x", "i", "c", "i", "t", "y">>,
      <<"b", "i", "a", "s">>>>

\* String.prototype.toLowerCase, on the letters the names of the model use.
toLowerCase(str) ==
    [i \in 1..Len(str) |->
        CASE str[i] = "L" -> "l" [] str[i] = "C" -> "c" [] str[i] = "R" -> "r"
          [] OTHER -> str[i]]

includes(str, pattern) ==
    \E i \in 1..(Len(str) - Len(pattern) + 1) :
        SubSeq(str, i, i + Len(pattern) - 1) = pattern

endsWith(str, suffix) ==
    /\ Len(suffix) <= Len(str)
    /\ SubSeq(str, Len(str) - Len(suffix) + 1, Len(str)) = suffix

isLowerBetterMetric(metric) ==
    LET lowerMetric == toLowerCase(metric)
    IN  \E k \in 1..Len(lowerIsBetterPatterns) :
            \/ includes(lowerMetric, lowerIsBetterPatterns[k])
            \/ endsWith(lowerMetric, <<"_">> \o lowerIsBetterPatterns[k])

\* previous[metric]: undefined when the record has no such key.
metricOf(metrics, metric) ==
    IF \E i \in 1..Len(metrics) : metrics[i].name = metric
    THEN metrics[CHOOSE i \in 1..Len(metrics) : metrics[i].name = metric].value
    ELSE UNDEF

MetricDiff(metric, previous, current, delta, direction) ==
    [metric |-> metric, previous |-> previous, current |-> current,
     delta |-> delta, direction |-> direction]

\* The body of the loop of diffMetrics for one key: the diffs it pushes.
diffMetric(metric, prevValue, currValue) ==
    IF prevValue = UNDEF /\ currValue = UNDEF THEN <<>>
    ELSE IF prevValue = UNDEF
    THEN <<MetricDiff(metric, UNDEF, currValue, UNDEF, "new")>>
    ELSE IF currValue = UNDEF
    THEN <<MetricDiff(metric, prevValue, UNDEF, UNDEF, "regressed")>>
    ELSE IF prevValue = currValue THEN <<>>
    ELSE IF prevValue.k = "number" /\ currValue.k = "number"
    THEN LET delta == currValue.n - prevValue.n
         IN  <<MetricDiff(metric, prevValue, currValue, Num(delta),
                   IF delta = 0 THEN "unchanged"
                   ELSE IF isLowerBetterMetric(metric)
                   THEN (IF delta < 0 THEN "improved" ELSE "regressed")
                   ELSE (IF delta > 0 THEN "improved" ELSE "regressed"))>>
    ELSE <<MetricDiff(metric, prevValue, currValue, UNDEF, "regressed")>>

\* Object.keys(previous) followed by the keys of current not met before.
allKeys(previous, current) ==
    [i \in 1..Len(previous) |-> previous[i].name]
    \o SelectSeq([i \in 1..Len(current) |-> current[i].name],
                 LAMBDA name : metricOf(previous, name) = UNDEF
                               /\ \A j \in 1..Len(previous) : previous[j].name # name)

RECURSIVE diffKeys(_, _, _)
diffKeys(keys, previous, current) ==
    IF keys = <<>> THEN <<>>
    ELSE diffMetric(Head(keys), metricOf(previous, Head(keys)), metricOf(current, Head(keys)))
         \o diffKeys(Tail(keys), previous, current)

diffMetrics(previous, current) == diffKeys(allKeys(previous, current), previous, current)

\* Map.get after the results were set in list order: the last result of
\* the name; names in the order of the first set.
lastNamed(results, evalName) ==
    results[CHOOSE i \in 1..Len(results) :
                /\ results[i].evalName = evalName
                /\ \A j \in 1..Len(results) : results[j].evalName = evalName => j <= i]

mapKeys(results) ==
    LET firsts == {i \in 1..Len(results) :
                      \A j \in 1..(i - 1) : results[j].evalName # results[i].evalName}
    IN  [k \in 1..Cardinality(firsts) |->
            results[CHOOSE i \in firsts : Cardinality({j \in firsts : j <= i}) = k].evalName]

mapHas(results, evalName) == \E i \in 1..Len(results) : results[i].evalName = evalName

RemovedEval ==
    MetricDiff(<<"*">>, Str("present"), UNDEF, UNDEF, "regressed")

\* The two loops of diffEvalResults: the diffs of the current evals, then
\* one entry per removed eval.
diffEvalResults(previous, current) ==
    LET currKeys == mapKeys(current)
        prevKeys == mapKeys(previous)
        ofCurrent == [k \in 1..Len(currKeys) |->
            [evalName |-> currKeys[k],
             metrics |-> diffMetrics(
                 IF mapHas(previous, currKeys[k])
                 THEN lastNamed(previous, currKeys[k]).metrics ELSE <<>>,
                 lastNamed(current, currKeys[k]).metrics)]]
        changed == SelectSeq(ofCurrent, LAMBDA d : Len(d.metrics) > 0)
        removed == SelectSeq(prevKeys, LAMBDA name : ~mapHas(current, name))
        diffs == changed \o [k \in 1..Len(removed) |->
                                [evalName |-> removed[k], metrics |-> <<RemovedEval>>]]
        count(direction) ==
            LET RECURSIVE total(_)
                total(k) == IF k = 0 THEN 0
                            ELSE total(k - 1)
                                 + Cardinality({m \in 1..Len(diffs[k].metrics) :
                                       diffs[k].metrics[m].direction = direction})
            IN  total(Len(diffs))
        stats == [improved |-> count("improved"), regressed |-> count("regressed"),
                  unchanged |-> count("unchanged"), new |-> count("new")]
    IN  [identical |-> stats.improved = 0 /\ stats.regressed = 0 /\ stats.new = 0,
         diffs |-> diffs, stats |-> stats]

(* Inputs: a previous and a current run of at most one result each, the   *)
(* results holding a named metric and possibly "accuracy".                 *)
MetricNames ==
    {<<"a", "c", "c", "u", "r", "a", "c", "y">>,
     <<"s", "u", "c", "c", "e", "s", "s", "_", "r", "a", "t", "e">>,
     <<"e", "r", "r", "o", "r", "_", "r", "a", "t", "e">>,
     <<"L", "a", "t", "e", "n", "c", "y">>,
     <<"a", "c", "c", "u", "r", "a", "t", "e">>,
     <<"C", "o", "s", "t">>,
     <<"r", "e", "t", "r", "y", "_", "c", "o", "u", "n", "t">>,
     <<"p", "a", "s", "s", "_", "r", "a", "t", "e">>}

DiffResult(evalName, metrics) ==
    [evalName |-> evalName, runId |-> "r1",
     metrics |-> SelectSeq(metrics, LAMBDA m : m.value # UNDEF)]

DiffValues == NumberValues \cup {Str("high"), UNDEF}

InitDiff ==
    /\ calls = <<>>
    /\ clock = 0
    /\ \E name \in MetricNames, pv \in DiffValues, cv \in DiffValues,
          pa \in {UNDEF, Num(1)}, ca \in {UNDEF, Num(0), Num(1)},
          prevName \in {"", "test", "other"}, currName \in {"", "test"} :
        input = [previous |-> IF prevName = "" THEN <<>>
                              ELSE <<DiffResult(prevName,
                                        <<[name |-> <<"f", "1">>, value |-> pa],
                                          [name |-> name, value |-> pv]>>)>>,
                 current |-> IF currName = "" THEN <<>>
                             ELSE <<DiffResult(currName,
                                       <<[name |-> name, value |-> cv],
                                         [name |-> <<"f", "1">>, value |-> ca]>>)>>,
                 metric |-> name]

CallDiffEvalResults ==
    /\ Len(calls) < 1
    /\ calls' = Append(calls, [fn |-> "diffEvalResults",
                               outcome |-> diffEvalResults(input.previous, input.current)])
    /\ UNCHANGED <<input, clock>>

NextDiff == CallDiffEvalResults

SpecDiff == InitDiff /\ [][NextDiff]_vars

(***************************************************************************)
(* C28. diffEvalResults classifies a numeric metric whose value changed   *)
(* as improved exactly when it moved in the metric's better direction and *)
(* as regressed otherwise: downward is better when the lower-cased name   *)
(* contains one of error, rate, latency, time, cost, loss, miss, fail,    *)
(* hallucination, toxicity, bias, and upward is better for every other    *)
(* name; success_rate falls in the second group, so a rise of             *)
(* success_rate is classified improved.                                    *)
(***************************************************************************)
\* Names of the model that hold one of the words, read off their spelling.
DownwardIsBetter ==
    {<<"s", "u", "c", "c", "e", "s", "s", "_", "r", "a", "t", "e">>,
     <<"e", "r", "r", "o", "r", "_", "r", "a", "t", "e">>,
     <<"L", "a", "t", "e", "n", "c", "y">>,
     <<"a", "c", "c", "u", "r", "a", "t", "e">>,
     <<"C", "o", "s", "t">>,
     <<"p", "a", "s", "s", "_", "r", "a", "t", "e">>}

SuccessRate == <<"s", "u", "c", "c", "e", "s", "s", "_", "r", "a", "t", "e">>

\* The metric changed between two numbers in results of the same eval.
NumericChange ==
    /\ Len(input.previous) = 1 /\ Len(input.current) = 1
    /\ input.previous[1].evalName = input.current[1].evalName
    /\ metricOf(input.previous[1].metrics, input.metric).k = "number"
    /\ metricOf(input.current[1].metrics, input.metric).k = "number"
    /\ metricOf(input.previous[1].metrics, input.metric)
         # metricOf(input.current[1].metrics, input.metric)

\* The direction reported for the metric.
ReportedDirection(outcome) ==
    LET entries == {d \in 1..Len(outcome.diffs[1].metrics) :
                       outcome.diffs[1].metrics[d].metric = input.metric}
    IN  IF Len(outcome.diffs) = 0 \/ Cardinality(entries) # 1 THEN "none"
        ELSE outcome.diffs[1].metrics[CHOOSE d \in entries : TRUE].direction

Rose ==
    metricOf(input.current[1].metrics, input.metric).n
        > metricOf(input.previous[1].metrics, input.metric).n

ClassifiedByName(outcome) ==
    ReportedDirection(outcome) =
        IF input.metric \in DownwardIsBetter
        THEN (IF Rose THEN "regressed" ELSE "improved")
        ELSE (IF Rose THEN "improved" ELSE "regressed")

C28_Direction ==
    \A i \in 1..Len(calls) :
        NumericChange
        => /\ input.metric # SuccessRate => ClassifiedByName(calls[i].outcome)
           /\ input.metric = SuccessRate
              => ReportedDirection(calls[i].outcome)
                   = IF Rose THEN "improved" ELSE "regressed"

\* The rule by name alone, success_rate among the names that hold "rate".
DirectionByName ==
    \A i \in 1..Len(calls) : NumericChange => ClassifiedByName(calls[i].outcome)

(***************************************************************************)
(* C29. When evalResults holds several results with the same evalName,    *)
(* the legacy engine evaluates a required eval of that name against the   *)
(* last of them in list order only: the decision is the one the engine    *)
(* returns when every earlier result of a repeated name is taken out of   *)
(* the list, so earlier results contribute no violation and cannot turn a *)
(* failing rule into a pass.                                               *)
(***************************************************************************)
\* The results that are the last of their name, in list order.
LastOfEachName(evalResults) ==
    LET last == {i \in 1..Len(evalResults) :
                    \A j \in (i + 1)..Len(evalResults) :
                        evalResults[j].evalName # evalResults[i].evalName}
    IN  [k \in 1..Cardinality(last) |->
            evalResults[CHOOSE i \in last : Cardinality({j \in last : j <= i}) = k]]

\* The results that are the first of their name, in list order.
FirstOfEachName(evalResults) ==
    LET first == {i \in 1..Len(evalResults) :
                     \A j \in 1..(i - 1) :
                         evalResults[j].evalName # evalResults[i].evalName}
    IN  [k \in 1..Cardinality(first) |->
            evalResults[CHOOSE i \in first : Cardinality({j \in first : j <= i}) = k]]

LegacyCall(call) == call.fn = "evaluate" /\ ~input.contract.hasPolicy

C29_LastResultOfName ==
    \A i \in 1..Len(calls) :
        LegacyCall(calls[i])
        => calls[i].outcome
             = evaluate([input EXCEPT !.evalResults = LastOfEachName(input.evalResults)],
                        i - 1)

\* A required eval has two results; alone, the earlier passes every rule,
\* and the engine has returned a decision with violations.
C29_Witness ==
    \E i \in 1..Len(calls) :
        /\ LegacyCall(calls[i])
        /\ LastOfEachName(input.evalResults) # input.evalResults
        /\ calls[i].outcome.status \in {"BLOCK", "REQUIRES_APPROVAL"}
        /\ evaluate([input EXCEPT !.evalResults = FirstOfEachName(input.evalResults)],
                    i - 1).status = "PASS"

(***************************************************************************)
(* Contract diff (diffContracts).  A ContractDiff is [field, previous,    *)
(* current]; field is the dotted path as the sequence of its parts.  The  *)
(* contracts of the model carry no description: both sides are without    *)
(* one and the comparison of descriptions pushes nothing.                  *)
(***************************************************************************)
ContractDiff(field, previous, current) ==
    [field |-> field, previous |-> previous, current |-> current]

\* new Set(list): the distinct values in the order of their first occurrence.
setOf(list) ==
    LET firsts == {i \in 1..Len(list) : \A j \in 1..(i - 1) : list[j] # list[i]}
    IN  [k \in 1..Cardinality(firsts) |->
            list[CHOOSE i \in firsts : Cardinality({j \in firsts : j <= i}) = k]]

setHas(set, value) == \E i \in 1..Len(set) : set[i] = value

\* contract.requiredEvals ?? []
requiredEvalsOrEmpty(contract) ==
    IF contract.hasRequiredEvals THEN contract.requiredEvals ELSE <<>>

\* The diffs pushed when a field is not the same on both sides.
diffField(field, previous, current) ==
    IF previous # current THEN <<ContractDiff(field, previous, current)>> ELSE <<>>

RECURSIVE flatten(_)
flatten(lists) ==
    IF lists = <<>> THEN <<>> ELSE Head(lists) \o flatten(Tail(lists))

\* The comparison of the rules of a required eval present on both sides.
diffRules(evalName, prevEval, currEval) ==
    LET prevRuleKeys == setOf([i \in 1..Len(prevEval.rules) |-> prevEval.rules[i].metric])
        currRuleKeys == setOf([i \in 1..Len(currEval.rules) |-> currEval.rules[i].metric])
        path(metric) == <<"requiredEvals", evalName, "rules", metric>>
        added == [k \in 1..Len(currRuleKeys) |->
                    IF setHas(prevRuleKeys, currRuleKeys[k]) THEN <<>>
                    ELSE <<ContractDiff(path(currRuleKeys[k]), UNDEF, Str("added"))>>]
        removed == [k \in 1..Len(prevRuleKeys) |->
                      IF setHas(currRuleKeys, prevRuleKeys[k]) THEN <<>>
                      ELSE <<ContractDiff(path(prevRuleKeys[k]), Str("present"), UNDEF)>>]
        common == [k \in 1..Len(currEval.rules) |->
            LET currRule == currEval.rules[k]
            IN  IF ~setHas(prevRuleKeys, currRule.metric) THEN <<>>
                ELSE LET prevRule == prevEval.rules[
                             CHOOSE i \in 1..Len(prevEval.rules) :
                                 /\ prevEval.rules[i].metric = currRule.metric
                                 /\ \A j \in 1..(i - 1) :
                                        prevEval.rules[j].metric # currRule.metric]
                     IN  diffField(Append(path(currRule.metric), "operator"),
                                   Str(prevRule.operator), Str(currRule.operator))
                         \o diffField(Append(path(currRule.metric), "maxDelta"),
                                      prevRule.maxDelta, currRule.maxDelta)
                         \o diffField(Append(path(currRule.metric), "threshold"),
                                      prevRule.threshold, currRule.threshold)
                         \o diffField(Append(path(currRule.metric), "baseline"),
                                      Str(prevRule.baseline), Str(currRule.baseline))]
    IN  flatten(added) \o flatten(removed) \o flatten(common)

diffContracts(previous, current) ==
    LET prevEvals == requiredEvalsOrEmpty(previous)
        currEvals == requiredEvalsOrEmpty(current)
        prevEvalNames == setOf([i \in 1..Len(prevEvals) |-> prevEvals[i].name])
        currEvalNames == setOf([i \in 1..Len(currEvals) |-> currEvals[i].name])
        added == [k \in 1..Len(currEvalNames) |->
                    IF setHas(prevEvalNames, currEvalNames[k]) THEN <<>>
                    ELSE <<ContractDiff(<<"requiredEvals", currEvalNames[k]>>,
                                        UNDEF, Str("added"))>>]
        removed == [k \in 1..Len(prevEvalNames) |->
                      IF setHas(currEvalNames, prevEvalNames[k]) THEN <<>>
                      ELSE <<ContractDiff(<<"requiredEvals", prevEvalNames[k]>>,
                                          Str("present"), UNDEF)>>]
        common == [k \in 1..Len(currEvals) |->
            IF ~setHas(prevEvalNames, currEvals[k].name) THEN <<>>
            ELSE diffRules(currEvals[k].name,
                     prevEvals[CHOOSE i \in 1..Len(prevEvals) :
                                 /\ prevEvals[i].name = currEvals[k].name
                                 /\ \A j \in 1..(i - 1) :
                                        prevEvals[j].name # currEvals[k].name],
                     currEvals[k])]
        diffs == diffField(<<"name">>, Str(previous.name), Str(current.name))
                 \o diffField(<<"environment">>, Str(previous.environment),
                              Str(current.environment))
                 \o diffField(<<"onViolation", "action">>,
                              Str(previous.onViolation), Str(current.onViolation))
                 \o flatten(added) \o flatten(removed) \o flatten(common)
    IN  [identical |-> Len(diffs) = 0, diffs |-> diffs, count |-> Len(diffs)]

(* Inputs: two contracts and one release to evaluate under both.  Legacy  *)
(* pairs: one or two required evals with fixed-threshold rules, the       *)
(* thresholds over the values of the model.  Policy pairs: chains of at   *)
(* most one rule.                                                          *)
DiffRules ==
    {Rule("accuracy", ">=", "fixed", th, UNDEF) : th \in NumberValues}
    \cup {Rule("latency", "<=", "fixed", Num(1), UNDEF)}

DiffRequiredEvals ==
    {<<[name |-> "quality", rules |-> rs]>> : rs \in SeqsOf(DiffRules, 1, 2)}
    \cup {<<[name |-> "quality", rules |-> <<r1>>], [name |-> nm, rules |-> <<r2>>]>> :
             r1 \in DiffRules, r2 \in DiffRules, nm \in EvalNames}

DiffPolicies ==
    {Policy(global, <<>>, default) :
        global \in SeqsOf(PolicyRules, 0, 1), default \in {"none", "block"}}

InitDiffLegacy ==
    \E prevEvals \in DiffRequiredEvals, currEvals \in DiffRequiredEvals,
       prevAction \in {"block", "none"}, currAction \in {"block", "none"},
       accuracy \in {Num(0), Num(MaxValue)} :
        input = [previous |-> LegacyContract(TRUE, prevEvals, prevAction),
                 current |-> LegacyContract(TRUE, currEvals, currAction),
                 evalResults |-> <<EvalResult("quality", accuracy, Num(0)),
                                   EvalResult("safety", accuracy, Num(0))>>,
                 signals |-> <<>>]

InitDiffPolicy ==
    \E prevPolicy \in DiffPolicies, currPolicy \in DiffPolicies,
       currName \in {"release-gate", "canary-gate"},
       results \in PolicyResults, signals \in PolicySignals :
        input = [previous |-> PolicyContract(prevPolicy, FALSE, <<>>, "none"),
                 current |-> [PolicyContract(currPolicy, FALSE, <<>>, "none")
                                 EXCEPT !.name = currName],
                 evalResults |-> results, signals |-> signals]

InitContractDiff ==
    /\ calls = <<>>
    /\ clock = 0
    /\ InitDiffLegacy \/ InitDiffPolicy

\* The release evaluated under a contract.
ReleaseUnder(contract) ==
    EngineInput(contract, input.evalResults, BaselinesFor("quality", NoBaseline),
                TRUE, input.signals, "")

\* A reviewer diffs the two contracts, then evaluates the release under
\* the previous and under the current one.
CallDiffContracts ==
    /\ Len(calls) = 0
    /\ calls' = Append(calls, [fn |-> "diffContracts",
                               outcome |-> diffContracts(input.previous, input.current)])
    /\ UNCHANGED <<input, clock>>

CallEvaluatePrevious ==
    /\ Len(calls) = 1
    /\ calls' = Append(calls, [fn |-> "evaluate",
                               outcome |-> evaluate(ReleaseUnder(input.previous), clock)])
    /\ clock' = clock + 1
    /\ UNCHANGED input

CallEvaluateCurrent ==
    /\ Len(calls) = 2
    /\ calls' = Append(calls, [fn |-> "evaluate",
                               outcome |-> evaluate(ReleaseUnder(input.current), clock)])
    /\ clock' = clock + 1
    /\ UNCHANGED input

NextContractDiff == CallDiffContracts \/ CallEvaluatePrevious \/ CallEvaluateCurrent

SpecContractDiff == InitContractDiff /\ [][NextContractDiff]_vars

(***************************************************************************)
(* C30. If diffContracts(previous, current).identical is true, previous   *)
(* and current govern releases identically: evaluate on previous and      *)
(* evaluate on current return the same status and the same number of      *)
(* violations.                                                             *)
(***************************************************************************)
SameGoverning(a, b) ==
    /\ a.status = b.status
    /\ Len(a.violations) = Len(b.violations)

C30_IdenticalGovernsAlike ==
    Len(calls) = 3 /\ calls[1].outcome.identical
    => SameGoverning(calls[2].outcome, calls[3].outcome)

\* What the diff does establish: legacy contracts reported identical, with
\* every required eval named once and every metric ruled once per eval,
\* govern alike.
NamedOnce(contract) ==
    LET evals == requiredEvalsOrEmpty(contract)
    IN  /\ \A i, j \in 1..Len(evals) : evals[i].name = evals[j].name => i = j
        /\ \A e \in 1..Len(evals) :
              \A i, j \in 1..Len(evals[e].rules) :
                  evals[e].rules[i].metric = evals[e].rules[j].metric => i = j

IdenticalLegacyGovernsAlike ==
    /\ Len(calls) = 3 /\ calls[1].outcome.identical
    /\ ~input.previous.hasPolicy /\ ~input.current.hasPolicy
    /\ NamedOnce(input.previous) /\ NamedOnce(input.current)
    => SameGoverning(calls[2].outcome, calls[3].outcome)

====
